---- MODULE Spec2Model ----
(***************************************************************************)
(* Guarded command execution engine of shell_ai:                           *)
(*   CommandExecutor   (src/shell_ai/command_executor.py)                  *)
(*   ShellAIAssistant  (src/shell_ai/assistant.py)                         *)
(* Command texts are sequences of one-character strings, so that the       *)
(* substring tests, strip(), lower() and the regular expressions of the    *)
(* classifier are computed as the code computes them.                      *)
(***************************************************************************)
EXTENDS Integers, Sequences, FiniteSets, TLC

(***************************************************************************)
(* Text primitives (Python str methods used by the code)                   *)
(***************************************************************************)
UpperCase == <<"A","B","C","D","E","F","G","H","I","J","K","L","M",
               "N","O","P","Q","R","S","T","U","V","W","X","Y","Z">>

LowerCase == <<"a","b","c","d","e","f","g","h","i","j","k","l","m",
               "n","o","p","q","r","s","t","u","v","w","x","y","z">>

\* str.isspace() on one character
Whitespace == {" ", "\t", "\n", "\r", "\f"}

UpperSet == { UpperCase[i] : i \in 1..26 }

LowerChar(c) ==
    IF c \in UpperSet
    THEN LowerCase[CHOOSE i \in 1..26 : UpperCase[i] = c]
    ELSE c

\* str.lower()
lower(s) == [i \in 1..Len(s) |-> LowerChar(s[i])]

RECURSIVE lstrip(_)
lstrip(s) ==
    IF s # <<>> /\ Head(s) \in Whitespace THEN lstrip(Tail(s)) ELSE s

RECURSIVE rstrip(_)
rstrip(s) ==
    IF s # <<>> /\ s[Len(s)] \in Whitespace
    THEN rstrip(SubSeq(s, 1, Len(s) - 1))
    ELSE s

\* str.strip()
strip(s) == rstrip(lstrip(s))

\* t in s
Contains(s, t) ==
    \E i \in 0..(Len(s) - Len(t)) : SubSeq(s, i + 1, i + Len(t)) = t

\* s.startswith(t)
StartsWith(s, t) ==
    Len(t) <= Len(s) /\ SubSeq(s, 1, Len(t)) = t

\* str.split() without arguments: the runs of non-whitespace characters
RECURSIVE split(_)
split(s) ==
    LET t == lstrip(s)
    IN  IF t = <<>> THEN <<>>
        ELSE LET n == CHOOSE n \in 1..Len(t) :
                          /\ \A j \in 1..n : t[j] \notin Whitespace
                          /\ (n = Len(t) \/ t[n + 1] \in Whitespace)
             IN  << SubSeq(t, 1, n) >> \o split(SubSeq(t, n + 1, Len(t)))

\* dict.get(key, default)
DictGet(d, key, default) == IF key \in DOMAIN d THEN d[key] ELSE default

(***************************************************************************)
(* Regular expressions (re.search with re.IGNORECASE).  A pattern is a     *)
(* sequence of items: a character class with a quantifier.                 *)
(***************************************************************************)
Lit(c)  == [k |-> "lit", c |-> c,   q |-> "1"]
WsPlus  == [k |-> "ws",  c |-> " ", q |-> "+"]
WsStar  == [k |-> "ws",  c |-> " ", q |-> "*"]
AnyStar == [k |-> "any", c |-> " ", q |-> "*"]

Lits(t) == [i \in 1..Len(t) |-> Lit(t[i])]

ClassMatch(it, ch) ==
    CASE it.k = "lit" -> LowerChar(ch) = LowerChar(it.c)
      [] it.k = "ws"  -> ch \in Whitespace
      [] it.k = "any" -> ch # "\n"

RECURSIVE MatchHere(_, _, _, _)
MatchHere(pat, k, s, i) ==
    IF k > Len(pat) THEN TRUE
    ELSE LET it == pat[k] IN
         IF it.q = "1"
         THEN i <= Len(s) /\ ClassMatch(it, s[i]) /\ MatchHere(pat, k + 1, s, i + 1)
         ELSE \E n \in (IF it.q = "+" THEN 1 ELSE 0)..(Len(s) - i + 1) :
                 /\ \A j \in i..(i + n - 1) : ClassMatch(it, s[j])
                 /\ MatchHere(pat, k + 1, s, i + n)

re_search(pat, s) == \E i \in 1..(Len(s) + 1) : MatchHere(pat, 1, s, i)

(***************************************************************************)
(* Command texts of the model                                              *)
(***************************************************************************)
\* the backquote character (written as a token: the lexer of TLA+ accepts
\* no backquote inside a string)
Backquote == "<backquote>"

CmdLs        == <<"l","s">>
CmdSudo      == <<"s","u","d","o"," ","l","s">>
CmdRm        == <<"r","m"," ","-","r","f"," ","/">>
CmdEmpty     == <<>>
CmdBlank     == <<" ">>
CmdBackquote == <<"e","c","h","o"," ",Backquote,"i","d",Backquote," ",">"," ","f">>
CmdSubst     == <<"e","c","h","o"," ","$","(","i","d",")">>

Commands == { CmdLs, CmdSudo, CmdRm, CmdEmpty, CmdBlank, CmdBackquote, CmdSubst }

\* the command of ShellAIAssistant._error_response
ErrorCommand == <<"#"," ","E","r","r","o","r"," ","o","c","c","u","r","r","e","d">>

\* the command of the fallback of PromptBuilder.validate_json_response
FallbackCommand == <<"e","c","h","o"," ","'","E","r","r","o","r"," ","p","a","r","s","i","n","g"," ","A","I"," ","r","e","s","p","o","n","s","e","'">>

\* every command text that reaches the executor
Texts == Commands \cup { ErrorCommand, FallbackCommand }

(***************************************************************************)
(* CommandExecutor: Risk Classifier and Validator                          *)
(***************************************************************************)
\* each entry: the pattern's source text and its compiled form
DANGEROUS_PATTERNS == <<
    [src |-> <<"r","m","\\","s","+","-","r","f","\\","s","+","/">>,
     re  |-> Lits(<<"r","m">>) \o <<WsPlus>> \o Lits(<<"-","r","f">>)
             \o <<WsPlus>> \o Lits(<<"/">>)],
    [src |-> <<"r","m","\\","s","+","-","r","f","\\","s","+","\\","*">>,
     re  |-> Lits(<<"r","m">>) \o <<WsPlus>> \o Lits(<<"-","r","f">>)
             \o <<WsPlus>> \o Lits(<<"*">>)],
    [src |-> <<"d","d","\\","s","+","i","f","=",".","*","o","f","=","/","d","e","v","/">>,
     re  |-> Lits(<<"d","d">>) \o <<WsPlus>> \o Lits(<<"i","f","=">>)
             \o <<AnyStar>> \o Lits(<<"o","f","=","/","d","e","v","/">>)],
    [src |-> <<"m","k","f","s">>,
     re  |-> Lits(<<"m","k","f","s">>)],
    [src |-> <<">","\\","s","*","/","d","e","v","/">>,
     re  |-> Lits(<<">">>) \o <<WsStar>> \o Lits(<<"/","d","e","v","/">>)],
    [src |-> <<"c","h","m","o","d","\\","s","+","-","R","\\","s","+","7","7","7">>,
     re  |-> Lits(<<"c","h","m","o","d">>) \o <<WsPlus>> \o Lits(<<"-","R">>)
             \o <<WsPlus>> \o Lits(<<"7","7","7">>)],
    [src |-> <<"c","h","o","w","n","\\","s","+","-","R","\\","s","+","r","o","o","t">>,
     re  |-> Lits(<<"c","h","o","w","n">>) \o <<WsPlus>> \o Lits(<<"-","R">>)
             \o <<WsPlus>> \o Lits(<<"r","o","o","t">>)],
    [src |-> <<"c","u","r","l",".","*","\\","|","\\","s","*","b","a","s","h">>,
     re  |-> Lits(<<"c","u","r","l">>) \o <<AnyStar>> \o Lits(<<"|">>)
             \o <<WsStar>> \o Lits(<<"b","a","s","h">>)],
    [src |-> <<"w","g","e","t",".","*","\\","|","\\","s","*","s","h">>,
     re  |-> Lits(<<"w","g","e","t">>) \o <<AnyStar>> \o Lits(<<"|">>)
             \o <<WsStar>> \o Lits(<<"s","h">>)],
    [src |-> <<":","\\","(","\\",")","\\","s","*","\\","{",".","*","\\","}">>,
     re  |-> Lits(<<":","(",")">>) \o <<WsStar>> \o Lits(<<"{">>)
             \o <<AnyStar>> \o Lits(<<"}">>)] >>

SelectSeqIf(b, x) == IF b THEN <<x>> ELSE <<>>

RECURSIVE PatternRisks_NoMessage(_, _)
PatternRisks_NoMessage(command, k) ==
    IF k > Len(DANGEROUS_PATTERNS) THEN <<>>
    ELSE SelectSeqIf(re_search(DANGEROUS_PATTERNS[k].re, command),
                     DANGEROUS_PATTERNS[k].src)
         \o PatternRisks_NoMessage(command, k + 1)

RECURSIVE PatternRisks(_, _)
PatternRisks(command, k) ==
    IF k > Len(DANGEROUS_PATTERNS) THEN <<>>
    ELSE SelectSeqIf(re_search(DANGEROUS_PATTERNS[k].re, command),
                     <<"M","a","t","c","h","e","s"," ","d","a","n","g","e","r","o","u","s"," ","p","a","t","t","e","r","n",":"," ">> \o DANGEROUS_PATTERNS[k].src)
         \o PatternRisks(command, k + 1)

ShellNames == { <<"b","a","s","h">>, <<"s","h">>, <<"z","s","h">> }

RiskVerdict_PatternsDecide(command) ==
    LET risks ==
            PatternRisks(command, 1)
            \o SelectSeqIf(StartsWith(strip(command), <<"s","u","d","o">>),
                           <<"R","e","q","u","i","r","e","s"," ","r","o","o","t","/","a","d","m","i","n"," ","p","r","i","v","i","l","e","g","e","s">>)
            \o SelectSeqIf(Contains(command, <<">">>) /\ ~Contains(command, <<">",">">>),
                           <<"M","a","y"," ","o","v","e","r","w","r","i","t","e"," ","e","x","i","s","t","i","n","g"," ","f","i","l","e","s">>)
            \o SelectSeqIf(Contains(command, <<"|">>)
                             /\ \E shell \in ShellNames : Contains(command, shell),
                           <<"P","i","p","e","s"," ","t","o"," ","s","h","e","l","l"," ","-"," ","c","o","u","l","d"," ","e","x","e","c","u","t","e"," ","a","r","b","i","t","r","a","r","y"," ","c","o","d","e">>)
    IN  << Len(PatternRisks(command, 1)) > 0, risks >>

\* returns <<is_dangerous, risks>>
RiskVerdict(command) ==
    LET risks ==
            PatternRisks(command, 1)
            \o SelectSeqIf(StartsWith(strip(command), <<"s","u","d","o">>),
                           <<"R","e","q","u","i","r","e","s"," ","r","o","o","t","/","a","d","m","i","n"," ","p","r","i","v","i","l","e","g","e","s">>)
            \o SelectSeqIf(Contains(command, <<">">>) /\ ~Contains(command, <<">",">">>),
                           <<"M","a","y"," ","o","v","e","r","w","r","i","t","e"," ","e","x","i","s","t","i","n","g"," ","f","i","l","e","s">>)
            \o SelectSeqIf(Contains(command, <<"|">>)
                             /\ \E shell \in ShellNames : Contains(command, shell),
                           <<"P","i","p","e","s"," ","t","o"," ","s","h","e","l","l"," ","-"," ","c","o","u","l","d"," ","e","x","e","c","u","t","e"," ","a","r","b","i","t","r","a","r","y"," ","c","o","d","e">>)
    IN  << Len(risks) > 0, risks >>

\* is_dangerous, tabulated once for the command texts of the model
RiskTable == { << command, RiskVerdict(command) >> : command \in Texts }

is_dangerous(command) ==
    IF command \in Texts
    THEN (CHOOSE entry \in RiskTable : entry[1] = command)[2]
    ELSE RiskVerdict(command)

\* the literal entries of dangerous_chars
dangerous_chars == << <<Backquote>>,
                      <<"$","(",".",".",".",")">>,
                      <<"$","{",".",".",".","}">> >>

ValidationResult_NoStrip(command) ==
    IF command = <<>>
    THEN << FALSE, <<"E","m","p","t","y"," ","c","o","m","m","a","n","d">> >>
    ELSE IF \E k \in 1..Len(dangerous_chars) : Contains(command, dangerous_chars[k])
    THEN LET k == CHOOSE k \in 1..Len(dangerous_chars) :
                     /\ Contains(command, dangerous_chars[k])
                     /\ \A j \in 1..(k - 1) : ~Contains(command, dangerous_chars[j])
         IN  << FALSE, <<"P","o","t","e","n","t","i","a","l"," ","s","h","e","l","l"," ","i","n","j","e","c","t","i","o","n",":"," ","c","o","n","t","a","i","n","s"," ">> \o dangerous_chars[k] >>
    ELSE << TRUE, <<"V","a","l","i","d">> >>

\* returns <<valid, reason>>
ValidationResult(command) ==
    IF command = <<>> \/ strip(command) = <<>>
    THEN << FALSE, <<"E","m","p","t","y"," ","c","o","m","m","a","n","d">> >>
    ELSE IF \E k \in 1..Len(dangerous_chars) : Contains(command, dangerous_chars[k])
    THEN LET k == CHOOSE k \in 1..Len(dangerous_chars) :
                     /\ Contains(command, dangerous_chars[k])
                     /\ \A j \in 1..(k - 1) : ~Contains(command, dangerous_chars[j])
         IN  << FALSE, <<"P","o","t","e","n","t","i","a","l"," ","s","h","e","l","l"," ","i","n","j","e","c","t","i","o","n",":"," ","c","o","n","t","a","i","n","s"," ">> \o dangerous_chars[k] >>
    ELSE << TRUE, <<"V","a","l","i","d">> >>

\* validate_command, tabulated once for the command texts of the model
ValidationTable == { << command, ValidationResult(command) >> : command \in Texts }

validate_command(command) ==
    IF command \in Texts
    THEN (CHOOSE entry \in ValidationTable : entry[1] = command)[2]
    ELSE ValidationResult(command)


(***************************************************************************)
(* Environment: what the terminal, the spawned process and the provider    *)
(* can answer.  A text typed by the user is a character sequence;          *)
(* Interrupt stands for input() raising KeyboardInterrupt.                 *)
(***************************************************************************)
Interrupt == <<"<interrupt>">>

\* Python's None where a text or a record is expected
None == <<"<None>">>

NoInput == <<"<none>">>

\* outcomes of subprocess.run for a spawned command
ProcExit(rc, out, err) ==
    [kind |-> "exit", returncode |-> rc, stdout |-> out, stderr |-> err]

\* subprocess.TimeoutExpired
ProcTimeout == [kind |-> "timeout", returncode |-> 0, stdout |-> <<>>, stderr |-> <<>>]

\* any other Exception raised by subprocess.run; stderr holds str(e)
ProcError == [kind |-> "error", returncode |-> 0, stdout |-> <<>>, stderr |-> <<"b","o","o","m">>]

\* KeyboardInterrupt while the process runs (not an Exception subclass)
ProcInterrupt == [kind |-> "interrupt", returncode |-> 0, stdout |-> <<>>, stderr |-> <<>>]

NoProc == [kind |-> "none", returncode |-> 0, stdout |-> <<>>, stderr |-> <<>>]

\* exit status -1: the shell was killed by signal 1
ProcOutcomes ==
    { ProcExit(0, <<"o","k">>, <<>>),
      ProcExit(1, <<>>, <<"e","r","r">>),
      ProcExit(-1, <<>>, <<>>),
      ProcTimeout, ProcError, ProcInterrupt }

(***************************************************************************)
(* Events of the call in progress (what was evaluated, shown, read and     *)
(* spawned, in program order); att numbers the execution attempts of one   *)
(* top-level call.                                                         *)
(***************************************************************************)
Ev(ev, att, cmd, info) == [ev |-> ev, att |-> att, cmd |-> cmd, info |-> info]

(***************************************************************************)
(* CommandExecutor.execute                                                 *)
(***************************************************************************)
InvalidResult(command, reason) ==
    [success |-> FALSE, command |-> command,
     error |-> <<"I","n","v","a","l","i","d"," ","c","o","m","m","a","n","d",":"," ">> \o reason,
     stdout |-> <<>>, stderr |-> <<>>, returncode |-> -1]

DryRunResult_FailsDangerous(command, verdict) ==
    [command |-> command, is_dangerous |-> verdict[1], risks |-> verdict[2],
     dry_run |-> TRUE, success |-> ~verdict[1],
     stdout |-> <<"[","D","R","Y"," ","R","U","N","]"," ","W","o","u","l","d"," ","e","x","e","c","u","t","e",":"," ">> \o command,
     stderr |-> <<>>, returncode |-> IF verdict[1] THEN 1 ELSE 0]

DryRunResult(command, verdict) ==
    [command |-> command, is_dangerous |-> verdict[1], risks |-> verdict[2],
     dry_run |-> TRUE, success |-> TRUE,
     stdout |-> <<"[","D","R","Y"," ","R","U","N","]"," ","W","o","u","l","d"," ","e","x","e","c","u","t","e",":"," ">> \o command,
     stderr |-> <<>>, returncode |-> 0]

RunResult_TimeoutAsExit(command, verdict, proc) ==
    LET base == [command |-> command, is_dangerous |-> verdict[1],
                 risks |-> verdict[2], dry_run |-> FALSE]
    IN  CASE proc.kind = "exit" ->
               base @@ [success |-> (proc.returncode = 0), stdout |-> proc.stdout,
                        stderr |-> proc.stderr, returncode |-> proc.returncode]
          [] proc.kind = "timeout" ->
               base @@ [success |-> FALSE, stdout |-> <<>>,
                        stderr |-> <<>>, returncode |-> 124]
          [] OTHER ->
               base @@ [success |-> FALSE, stdout |-> <<>>,
                        stderr |-> <<"E","x","e","c","u","t","i","o","n"," ","f","a","i","l","e","d",":"," ">> \o proc.stderr,
                        returncode |-> -1]

\* result.update(...) of the try block and of the two except blocks
RunResult(command, verdict, proc) ==
    LET base == [command |-> command, is_dangerous |-> verdict[1],
                 risks |-> verdict[2], dry_run |-> FALSE]
    IN  CASE proc.kind = "exit" ->
               base @@ [success |-> (proc.returncode = 0), stdout |-> proc.stdout,
                        stderr |-> proc.stderr, returncode |-> proc.returncode]
          [] proc.kind = "timeout" ->
               base @@ [success |-> FALSE, stdout |-> <<>>,
                        stderr |-> <<"C","o","m","m","a","n","d"," ","t","i","m","e","d"," ","o","u","t"," ","a","f","t","e","r"," ","3","0"," ","s","e","c","o","n","d","s">>,
                        returncode |-> -1]
          [] OTHER ->
               base @@ [success |-> FALSE, stdout |-> <<>>,
                        stderr |-> <<"E","x","e","c","u","t","i","o","n"," ","f","a","i","l","e","d",":"," ">> \o proc.stderr,
                        returncode |-> -1]

\* self.history.append(result) is the last statement of the try block
AppendsToHistory(proc) == proc.kind = "exit"

history_append_KeepsLatest(hist, result) == << result >>

\* line 123: self.history.append(result)
history_append(hist, result) == Append(hist, result)

NoResult == [success |-> FALSE, command |-> <<>>, stdout |-> <<>>,
             stderr |-> <<>>, returncode |-> 0]

\* a call's effect: raised (KeyboardInterrupt left the call), the result
\* returned, the executor's history afterwards, the events in order
Effect(raised, result, hist, events) ==
    [raised |-> raised, result |-> result, history |-> hist, events |-> events]

Return_LogsEveryOutcome(result, hist, events, att) ==
    Effect(FALSE, result, Append(hist, result),
           events \o << Ev("outcome", att, result.command, result) >>)

\* the call returns result to its caller
Return(result, hist, events, att) ==
    Effect(FALSE, result, hist,
           events \o << Ev("outcome", att, result.command, result) >>)

execute(command, dry_run, proc, hist, att) ==
    LET v  == validate_command(command)
        e0 == << Ev("execute", att, command, dry_run),
                 Ev("validate", att, command, v[1]) >>
    IN  IF ~v[1]
        THEN Return(InvalidResult(command, v[2]), hist, e0, att)
        ELSE LET d  == is_dangerous(command)
                 e1 == e0 \o << Ev("classify", att, command, d[1]) >>
             IN  IF dry_run
                 THEN Return(DryRunResult(command, d), hist, e1, att)
                 ELSE LET e2 == e1 \o << Ev("spawn", att, command, proc.kind) >>
                          result == RunResult(command, d, proc)
                      IN  IF proc.kind = "interrupt"
                          THEN Effect(TRUE, NoResult, hist, e2)
                          ELSE Return(result,
                                      IF AppendsToHistory(proc)
                                      THEN history_append(hist, result) ELSE hist,
                                      e2, att)

(***************************************************************************)
(* CommandExecutor.execute_with_confirmation                               *)
(***************************************************************************)
NeedsConfirmation_IgnoresAuto(dangerous, auto_confirm) == dangerous

\* line 147: is_dangerous and not auto_confirm
NeedsConfirmation(dangerous, auto_confirm) == dangerous /\ ~auto_confirm

IsAffirmative_UnlessNo(response) == lower(response) # <<"n">>

\* line 155: response.lower() != 'y' denies
IsAffirmative(response) == lower(response) = <<"y">>

CancelledResult_ExitZero(command) ==
    [success |-> FALSE, command |-> command,
     error |-> <<"E","x","e","c","u","t","i","o","n"," ","c","a","n","c","e","l","l","e","d"," ","b","y"," ","u","s","e","r">>,
     stdout |-> <<>>, stderr |-> <<>>, returncode |-> 0]

CancelledResult(command) ==
    [success |-> FALSE, command |-> command,
     error |-> <<"E","x","e","c","u","t","i","o","n"," ","c","a","n","c","e","l","l","e","d"," ","b","y"," ","u","s","e","r">>,
     stdout |-> <<>>, stderr |-> <<>>, returncode |-> -1]

execute_with_confirmation(command, auto_confirm, response, proc, hist, att) ==
    LET d  == is_dangerous(command)
        e0 == << Ev("ewc", att, command, auto_confirm),
                 Ev("classify", att, command, d[1]) >>
    IN  IF NeedsConfirmation(d[1], auto_confirm)
        THEN LET e1 == e0 \o << Ev("ask", att, command, d[2]),
                               Ev("answer", att, command, response) >>
             IN  IF response = Interrupt
                 THEN Effect(TRUE, NoResult, hist, e1)
                 ELSE IF ~IsAffirmative(response)
                 THEN Return(CancelledResult(command), hist, e1, att)
                 ELSE [execute(command, FALSE, proc, hist, att)
                           EXCEPT !.events = e1 \o @]
        ELSE [execute(command, FALSE, proc, hist, att) EXCEPT !.events = e0 \o @]

(***************************************************************************)
(* CommandExecutor.get_last_error and CommandExecutor.suggest_fix          *)
(***************************************************************************)
\* the most recent entry of the history that failed, or None
get_last_error(hist) ==
    IF \E i \in 1..Len(hist) : ~hist[i].success
    THEN hist[CHOOSE i \in 1..Len(hist) :
                  /\ ~hist[i].success
                  /\ \A j \in (i + 1)..Len(hist) : hist[j].success]
    ELSE None

\* a call of suggest_fix ends by returning suggestions or by raising
Hints(suggestions) == [raised |-> FALSE, suggestions |-> suggestions]

Raises == [raised |-> TRUE, suggestions |-> <<>>]

PackageManagers == { <<"a","p","t">>, <<"y","u","m">>, <<"d","n","f">>, <<"b","r","e","w">> }

ModulePrefix == <<"N","o"," ","m","o","d","u","l","e"," ","n","a","m","e","d"," ","'">>

\* re.search(r"No module named '([^']+)'", stderr): group(1) of the leftmost
\* match, or None
ModuleName(stderr) ==
    LET run(i) == CHOOSE n \in 0..(Len(stderr) - i + 1) :
                      /\ \A j \in i..(i + n - 1) : stderr[j] # "'"
                      /\ (i + n > Len(stderr) \/ stderr[i + n] = "'")
        hit(p) == /\ p + Len(ModulePrefix) - 1 <= Len(stderr)
                  /\ SubSeq(stderr, p, p + Len(ModulePrefix) - 1) = ModulePrefix
                  /\ run(p + Len(ModulePrefix)) >= 1
                  /\ p + Len(ModulePrefix) + run(p + Len(ModulePrefix)) <= Len(stderr)
        starts == { p \in 1..Len(stderr) : hit(p) }
    IN  IF starts = {} THEN None
        ELSE LET p == CHOOSE p \in starts : \A q \in starts : p <= q
             IN  SubSeq(stderr, p + Len(ModulePrefix),
                        p + Len(ModulePrefix) + run(p + Len(ModulePrefix)) - 1)

FixHints(error_result) ==
    LET stderr     == DictGet(error_result, "stderr", <<>>)
        error_text == lower(stderr)
        command    == DictGet(error_result, "command", <<>>)
    IN  IF Contains(error_text, <<"c","o","m","m","a","n","d"," ","n","o","t"," ","f","o","u","n","d">>)
        THEN IF split(command) = <<>>
             THEN Raises
             ELSE LET cmd_name == split(command)[1]
                  IN  Hints(<< <<"I","n","s","t","a","l","l"," ">> \o cmd_name \o <<" ","u","s","i","n","g"," ","y","o","u","r"," ","p","a","c","k","a","g","e"," ","m","a","n","a","g","e","r">>,
                               <<"C","h","e","c","k"," ","i","f"," ">> \o cmd_name \o <<" ","i","s"," ","i","n"," ","y","o","u","r"," ","P","A","T","H">>,
                               <<"C","h","e","c","k"," ","f","o","r"," ","t","y","p","o","s"," ","i","n"," ","t","h","e"," ","c","o","m","m","a","n","d"," ","n","a","m","e">> >>)
        ELSE IF Contains(error_text, <<"p","e","r","m","i","s","s","i","o","n"," ","d","e","n","i","e","d">>)
        THEN Hints(<< <<"T","r","y"," ","w","i","t","h"," ","s","u","d","o",":"," ","s","u","d","o"," ">> \o command,
                      <<"C","h","e","c","k"," ","f","i","l","e"," ","p","e","r","m","i","s","s","i","o","n","s"," ","w","i","t","h"," ","l","s"," ","-","l">>,
                      <<"E","n","s","u","r","e"," ","y","o","u"," ","h","a","v","e"," ","a","c","c","e","s","s"," ","t","o"," ","t","h","e"," ","f","i","l","e","/","d","i","r","e","c","t","o","r","y">> >>)
        ELSE IF Contains(error_text, <<"n","o"," ","s","u","c","h"," ","f","i","l","e"," ","o","r"," ","d","i","r","e","c","t","o","r","y">>)
        THEN Hints(<< <<"C","h","e","c","k"," ","i","f"," ","t","h","e"," ","f","i","l","e","/","d","i","r","e","c","t","o","r","y"," ","e","x","i","s","t","s">>,
                      <<"V","e","r","i","f","y"," ","t","h","e"," ","p","a","t","h"," ","i","s"," ","c","o","r","r","e","c","t">>,
                      <<"U","s","e"," ","t","a","b"," ","c","o","m","p","l","e","t","i","o","n"," ","t","o"," ","v","e","r","i","f","y"," ","p","a","t","h","s">> >>)
        ELSE IF \E pkg \in PackageManagers : Contains(error_text, pkg)
        THEN IF Contains(error_text, <<"l","o","c","k">>)
             THEN Hints(<< <<"A","n","o","t","h","e","r"," ","p","a","c","k","a","g","e"," ","m","a","n","a","g","e","r"," ","i","s"," ","r","u","n","n","i","n","g">>,
                           <<"W","a","i","t"," ","f","o","r"," ","i","t"," ","t","o"," ","f","i","n","i","s","h"," ","o","r"," ","k","i","l","l"," ","t","h","e"," ","p","r","o","c","e","s","s">> >>)
             ELSE IF Contains(error_text, <<"n","o","t"," ","f","o","u","n","d">>)
             THEN Hints(<< <<"U","p","d","a","t","e"," ","p","a","c","k","a","g","e"," ","l","i","s","t","s"," ","f","i","r","s","t">>,
                           <<"C","h","e","c","k"," ","p","a","c","k","a","g","e"," ","n","a","m","e"," ","s","p","e","l","l","i","n","g">> >>)
             ELSE Hints(<<>>)
        ELSE IF Contains(command, <<"g","i","t">>)
        THEN IF Contains(error_text, <<"n","o","t"," ","a"," ","g","i","t"," ","r","e","p","o","s","i","t","o","r","y">>)
             THEN Hints(<< <<"I","n","i","t","i","a","l","i","z","e"," ","a"," ","g","i","t"," ","r","e","p","o","s","i","t","o","r","y",":"," ","g","i","t"," ","i","n","i","t">>,
                           <<"C","l","o","n","e"," ","a","n"," ","e","x","i","s","t","i","n","g"," ","r","e","p","o","s","i","t","o","r","y">> >>)
             ELSE IF Contains(error_text, <<"m","e","r","g","e"," ","c","o","n","f","l","i","c","t">>)
             THEN Hints(<< <<"R","e","s","o","l","v","e"," ","c","o","n","f","l","i","c","t","s"," ","m","a","n","u","a","l","l","y">>,
                           <<"U","s","e"," ","g","i","t"," ","s","t","a","t","u","s"," ","t","o"," ","s","e","e"," ","c","o","n","f","l","i","c","t","e","d"," ","f","i","l","e","s">> >>)
             ELSE Hints(<<>>)
        ELSE IF Contains(command, <<"p","y","t","h","o","n">>) \/ Contains(command, <<"p","i","p">>)
        THEN IF Contains(error_text, <<"m","o","d","u","l","e","n","o","t","f","o","u","n","d","e","r","r","o","r">>)
             THEN IF ModuleName(stderr) # None
                  THEN Hints(<< <<"I","n","s","t","a","l","l"," ","m","i","s","s","i","n","g"," ","m","o","d","u","l","e",":"," ","p","i","p"," ","i","n","s","t","a","l","l"," ">>
                                \o ModuleName(stderr) >>)
                  ELSE Hints(<<>>)
             ELSE IF Contains(error_text, <<"s","y","n","t","a","x","e","r","r","o","r">>)
             THEN Hints(<< <<"C","h","e","c","k"," ","P","y","t","h","o","n"," ","s","y","n","t","a","x">>,
                           <<"V","e","r","i","f","y"," ","P","y","t","h","o","n"," ","v","e","r","s","i","o","n"," ","c","o","m","p","a","t","i","b","i","l","i","t","y">> >>)
             ELSE Hints(<<>>)
        ELSE Hints(<<>>)

ErrorCommands == { <<>>, <<" ">>, <<"l","s">>, <<"g","i","t"," ","s","t","a","t","u","s">>, <<"c","a","t"," ",".","g","i","t","i","g","n","o","r","e">>,
                   <<"a","p","t"," ","u","p","d","a","t","e">>, <<"p","y","t","h","o","n"," ","a",".","p","y">> }

ErrorTexts == { <<>>, <<"s","h",":"," ","c","o","m","m","a","n","d"," ","n","o","t"," ","f","o","u","n","d">>, <<"P","e","r","m","i","s","s","i","o","n"," ","d","e","n","i","e","d">>,
                <<"N","o"," ","s","u","c","h"," ","f","i","l","e"," ","o","r"," ","d","i","r","e","c","t","o","r","y">>, <<"a","p","t",":"," ","l","o","c","k"," ","h","e","l","d">>,
                <<"y","u","m",":"," ","n","o","t"," ","f","o","u","n","d">>, <<"f","a","t","a","l",":"," ","n","o","t"," ","a"," ","g","i","t"," ","r","e","p","o","s","i","t","o","r","y">>,
                <<"M","e","r","g","e"," ","c","o","n","f","l","i","c","t">>, <<"n","o","t"," ","a"," ","g","i","t"," ","r","e","p","o","s","i","t","o","r","y"," ","(","s","e","e"," ","a","p","t",")">>,
                <<"M","o","d","u","l","e","N","o","t","F","o","u","n","d","E","r","r","o","r",":"," ","N","o"," ","m","o","d","u","l","e"," ","n","a","m","e","d"," ","'","x","'">>,
                <<"M","o","d","u","l","e","N","o","t","F","o","u","n","d","E","r","r","o","r",":"," ","N","o"," ","m","o","d","u","l","e"," ","n","a","m","e","d"," ","'","a","p","t","'">>,
                <<"M","o","d","u","l","e","N","o","t","F","o","u","n","d","E","r","r","o","r">>, <<"S","y","n","t","a","x","E","r","r","o","r">> }

\* the outcomes given to suggest_fix called directly
ErrorResults ==
    { [success |-> FALSE, command |-> c, stdout |-> <<>>, stderr |-> e,
       returncode |-> 1] : c \in ErrorCommands, e \in ErrorTexts }

\* suggest_fix, tabulated once for the outcomes of the model
FixTable == { << error_result, FixHints(error_result) >> :
                  error_result \in ErrorResults }

suggest_fix(error_result) ==
    IF error_result \in ErrorResults
    THEN (CHOOSE entry \in FixTable : entry[1] = error_result)[2]
    ELSE FixHints(error_result)

\* what a call of suggest_fix read and how it ended
FixCall(error_result, x) ==
    [stderr |-> error_result.stderr, raised |-> x.raised,
     suggestions |-> x.suggestions]

(***************************************************************************)
(* ShellAIAssistant: suggestion provider and user choice                   *)
(***************************************************************************)
Suggestion(command, alternatives, safe) ==
    [command |-> command, alternatives |-> alternatives,
     safe_to_auto_execute |-> safe]

\* ShellAIAssistant._error_response
error_response == Suggestion(ErrorCommand, <<>>, FALSE)

\* the fallback of PromptBuilder.validate_json_response
parse_fallback == Suggestion(FallbackCommand, <<>>, FALSE)

\* reply: what the provider did for one query; json.loads returns whatever
\* object the reply holds
get_command_suggestion(reply) ==
    CASE reply.kind \in { "suggestion", "incomplete" } -> reply.suggestion
      [] reply.kind = "unparsable"  -> parse_fallback
      [] OTHER                      -> error_response

(***************************************************************************)
(* ShellAIAssistant.conversation_history                                   *)
(***************************************************************************)
Message(role, content) == [role |-> role, content |-> content]

\* seq[-n:] of Python for n >= 0: -0 is 0, so seq[-0:] is the whole list
SliceLast(seq, n) ==
    IF n = 0 \/ n >= Len(seq) THEN seq
    ELSE SubSeq(seq, Len(seq) - n + 1, Len(seq))

add_to_history_KeepsOldest(conversation, role, content, max_entries) ==
    LET appended == Append(conversation, Message(role, content))
    IN  IF Len(appended) > max_entries
        THEN SubSeq(appended, 1, max_entries)
        ELSE appended

\* conversation: self.conversation_history; max_entries: what
\* self.config.get('history.max_entries', 20) returns
add_to_history(conversation, role, content, max_entries) ==
    LET appended == Append(conversation, Message(role, content))
    IN  IF Len(appended) > max_entries
        THEN SliceLast(appended, max_entries)
        ELSE appended

\* the text of the provider's reply (response.choices[0].message.content,
\* result.get('response', ''))
ai_response(reply) ==
    CASE reply.kind = "suggestion" -> <<"{">> \o reply.suggestion.command \o <<"}">>
      [] reply.kind = "incomplete" -> <<"{","}">>
      [] reply.kind = "unparsable" -> <<"?">>
      [] OTHER                     -> <<>>

\* what one provider call leaves: the conversation, the messages it passed
\* to add_to_history, the suggestion returned
Suggested(conversation, messages, suggestion) ==
    [conversation |-> conversation, messages |-> messages,
     suggestion |-> suggestion]

\* reply.kind = "unavailable": client.chat.completions.create raised; the
\* user message is recorded at line 67, before the call
get_openai_suggestion(conversation, user_input, reply, max_entries) ==
    LET asked == add_to_history(conversation, "user", user_input, max_entries)
    IN  IF reply.kind = "unavailable"
        THEN Suggested(asked, << Message("user", user_input) >>, error_response)
        ELSE Suggested(add_to_history(asked, "assistant", ai_response(reply),
                                      max_entries),
                       << Message("user", user_input),
                          Message("assistant", ai_response(reply)) >>,
                       get_command_suggestion(reply))

\* reply.kind = "unavailable": requests.post raised or the status is not
\* 200; both messages are recorded at lines 120-121, after the response
get_ollama_suggestion(conversation, user_input, reply, max_entries) ==
    IF reply.kind = "unavailable"
    THEN Suggested(conversation, <<>>, error_response)
    ELSE Suggested(add_to_history(
                       add_to_history(conversation, "user", user_input,
                                      max_entries),
                       "assistant", ai_response(reply), max_entries),
                   << Message("user", user_input),
                      Message("assistant", ai_response(reply)) >>,
                   get_command_suggestion(reply))

\* lines 55-61 with the conversation: config.is_openai selects the provider
suggest(config, conversation, user_input, reply) ==
    IF config.is_openai
    THEN get_openai_suggestion(conversation, user_input, reply,
                               config.max_entries)
    ELSE get_ollama_suggestion(conversation, user_input, reply,
                               config.max_entries)

\* one pass of the loop: input(prompt).lower().strip() against the lists
ChoiceOf(line) ==
    LET choice == strip(lower(line))
    IN  CASE choice \in { <<"y">>, <<"y","e","s">> }          -> "execute"
          [] choice \in { <<"n">>, <<"n","o">> }           -> "cancel"
          [] choice \in { <<"e">>, <<"e","d","i","t">> }         -> "edit"
          [] choice \in { <<"a">>, <<"a","l","t","e","r","n","a","t","i","v","e","s">> } -> "alternatives"
          [] choice \in { <<"q">>, <<"q","u","i","t">> }         -> "quit"
          [] OTHER                                  -> "invalid"

\* lines: the lines typed at the prompt, ending with the first valid one
\* (or with Interrupt); returns "interrupt" when input() raised
RECURSIVE get_user_choice(_)
get_user_choice(lines) ==
    IF Head(lines) = Interrupt THEN "interrupt"
    ELSE IF ChoiceOf(Head(lines)) # "invalid" THEN ChoiceOf(Head(lines))
    ELSE get_user_choice(Tail(lines))

\* suggestion['command'] of display_suggestion raises KeyError without the key
HasCommand(suggestion) == "command" \in DOMAIN suggestion

\* choice in ['y', 'yes'] after strip().lower()
IsYes(line) == lower(strip(line)) \in { <<"y">>, <<"y","e","s">> }

(***************************************************************************)
(* ShellAIAssistant.execute_command: one activation.  The recursive call   *)
(* is the last thing an activation does, so it is returned as next.        *)
(***************************************************************************)
Call(command, safe, att, origin) ==
    [active |-> TRUE, command |-> command, safe |-> safe, att |-> att,
     origin |-> origin]

NoCall == [active |-> FALSE, command |-> <<>>, safe |-> FALSE, att |-> 0,
           origin |-> "none"]

NeedsRepair_AnyFailure(result) == ~result.success

\* line 209: not result['success'] and result['returncode'] != -1
NeedsRepair(result) == ~result.success /\ result.returncode # -1

FixAutoConfirm_TrustsFlag(suggestion) == suggestion.safe_to_auto_execute

\* line 228: execute_command(suggestion['command']) leaves safe at its default
FixAutoConfirm(suggestion) == FALSE

Step(raised, ret, hist, events, next) ==
    [raised |-> raised, ret |-> ret, history |-> hist, events |-> events,
     next |-> next]

\* what the environment supplies to one activation: the confirmation answer,
\* the process outcome, the answer to the offer of help, the provider's reply,
\* the lines typed at the choice prompt, the edited command, the selection
Inputs(response, proc, help, reply, lines, edit, select) ==
    [response |-> response, proc |-> proc, help |-> help, reply |-> reply,
     lines |-> lines, edit |-> edit, select |-> select]

\* lines 210-228 and 248-264: the offer of AI help after a failed result;
\* catches is TRUE inside the try block of execute_command
RepairOffer(result, att, in, hist, events, catches, ret) ==
    LET e1 == events \o << Ev("help", att, result.command, in.help) >>
    IN  IF in.help = Interrupt
        THEN Step(~catches, ret, hist, e1, NoCall)
        ELSE IF ~IsYes(in.help)
        THEN Step(FALSE, ret, hist, e1, NoCall)
        ELSE LET suggestion == get_command_suggestion(in.reply)
                 choice == get_user_choice(in.lines)
                 ep == e1 \o << Ev("provider", att, result.command, in.reply.kind) >>
                 e2 == ep \o << Ev("choice", att, suggestion.command, choice) >>
             IN  IF ~HasCommand(suggestion)
                 THEN Step(TRUE, ret, hist,
                           ep \o << Ev("KeyError", att, result.command, "command") >>,
                           NoCall)
                 ELSE IF choice = "interrupt"
                 THEN Step(~catches, ret, hist, e2, NoCall)
                 ELSE IF choice = "execute"
                 THEN Step(FALSE, ret, hist, e2,
                           Call(suggestion.command, FixAutoConfirm(suggestion),
                                att + 1, "fix"))
                 ELSE Step(FALSE, ret, hist, e2, NoCall)

\* x: the effect of line 205
AfterConfirmedExecution(call, in, x) ==
    IF x.raised
    THEN Step(TRUE, FALSE, x.history, x.events, NoCall)
    ELSE IF NeedsRepair(x.result)
    THEN RepairOffer(x.result, call.att, in, x.history, x.events, TRUE,
                     x.result.success)
    ELSE Step(FALSE, x.result.success, x.history, x.events, NoCall)

\* the activation's entry, with where the call was made
Entered(call, x) ==
    [x EXCEPT !.events = << Ev("call", call.att, call.command, call.origin) >> \o @]

execute_command(call, in, hist) ==
    AfterConfirmedExecution(call, in,
        Entered(call, execute_with_confirmation(call.command, call.safe,
                                                in.response, in.proc, hist,
                                                call.att)))

(***************************************************************************)
(* ShellAIAssistant.execute_direct_command                                 *)
(***************************************************************************)
\* the call at line 264 is a top-level call of execute_command
AsDirectFix(st) ==
    IF st.next.active THEN [st EXCEPT !.next.origin = "direct_fix"] ELSE st

\* x: the effect of line 237
AfterDirectExecution(in, x) ==
    IF x.raised
    THEN Step(TRUE, FALSE, x.history, x.events, NoCall)
    ELSE IF NeedsRepair(x.result)
    THEN LET suggestions == suggest_fix(x.result)
             e1 == x.events \o << Ev("suggest_fix", 0, x.result.command,
                                     FixCall(x.result, suggestions)) >>
         IN  IF suggestions.raised
             THEN Step(TRUE, FALSE, x.history, e1, NoCall)
             ELSE AsDirectFix(RepairOffer(x.result, 0, in, x.history, e1,
                                          FALSE, FALSE))
    ELSE Step(FALSE, FALSE, x.history, x.events, NoCall)

execute_direct_command(command, in, hist) ==
    AfterDirectExecution(in,
        [execute(command, FALSE, in.proc, hist, 0)
            EXCEPT !.events = << Ev("direct", 0, command, "") >> \o @])

(***************************************************************************)
(* ShellAIAssistant.handle_alternatives and process_request                *)
(***************************************************************************)
Digits == <<"0","1","2","3","4","5","6","7","8","9">>

IsDigit(c) == \E d \in 1..10 : Digits[d] = c

DigitValue(c) == (CHOOSE d \in 1..10 : Digits[d] = c) - 1

RECURSIVE DigitsValue(_)
DigitsValue(s) ==
    IF s = <<>> THEN 0
    ELSE 10 * DigitsValue(SubSeq(s, 1, Len(s) - 1)) + DigitValue(s[Len(s)])

ParseInt_IgnoresSign(text) ==
    LET s      == strip(text)
        signed == s # <<>> /\ Head(s) \in {"+", "-"}
        digits == IF signed THEN Tail(s) ELSE s
    IN  IF digits # <<>> /\ \A i \in 1..Len(digits) : IsDigit(digits[i])
        THEN [ok |-> TRUE, val |-> DigitsValue(digits)]
        ELSE [ok |-> FALSE, val |-> 0]

\* int(text): surrounding whitespace, an optional sign, decimal digits;
\* ok = FALSE stands for ValueError
ParseInt(text) ==
    LET s      == strip(text)
        signed == s # <<>> /\ Head(s) \in {"+", "-"}
        digits == IF signed THEN Tail(s) ELSE s
    IN  IF digits # <<>> /\ \A i \in 1..Len(digits) : IsDigit(digits[i])
        THEN [ok |-> TRUE,
              val |-> IF signed /\ Head(s) = "-"
                      THEN 0 - DigitsValue(digits) ELSE DigitsValue(digits)]
        ELSE [ok |-> FALSE, val |-> 0]

handle_alternatives_NoLowerBound(alternatives, choice) ==
    IF alternatives = <<>> THEN None
    ELSE IF choice = Interrupt THEN Interrupt
    ELSE IF lower(choice) = <<"c">> THEN None
    ELSE LET n == ParseInt(choice)
             alt_index == n.val - 1
         IN  IF ~n.ok THEN None
             ELSE IF alt_index < Len(alternatives) /\ alt_index >= 0 - Len(alternatives)
             THEN alternatives[(alt_index % Len(alternatives)) + 1]
             ELSE None

\* returns the selected command, None, or Interrupt when input() raised
handle_alternatives(alternatives, choice) ==
    IF alternatives = <<>> THEN None
    ELSE IF choice = Interrupt THEN Interrupt
    ELSE IF lower(choice) = <<"c">> THEN None
    ELSE LET n == ParseInt(choice)
             alt_index == n.val - 1
         IN  IF ~n.ok THEN None
             ELSE IF 0 <= alt_index /\ alt_index < Len(alternatives)
             THEN alternatives[alt_index + 1]
             ELSE None

process_request(user_input, in, hist) ==
    LET e0 == << Ev("request", 0, user_input, "") >>
    IN
    IF StartsWith(user_input, <<"/">>)
    THEN LET direct_command == strip(Tail(user_input))
         IN  IF direct_command # <<>>
             THEN [execute_direct_command(direct_command, in, hist)
                       EXCEPT !.events = e0 \o @]
             ELSE Step(FALSE, FALSE, hist, e0, NoCall)
    ELSE
    LET suggestion == get_command_suggestion(in.reply)
        choice == get_user_choice(in.lines)
        ep == e0 \o << Ev("provider", 0, user_input, in.reply.kind) >>
        e1 == ep \o << Ev("typed", 0, suggestion.command, in.lines),
                       Ev("choice", 0, suggestion.command, choice) >>
    IN  CASE ~HasCommand(suggestion) ->
               Step(TRUE, FALSE, hist,
                    ep \o << Ev("KeyError", 0, user_input, "command") >>, NoCall)
          [] choice = "execute" ->
               Step(FALSE, FALSE, hist, e1,
                    Call(suggestion.command, suggestion.safe_to_auto_execute,
                         0, "suggestion"))
          [] choice = "edit" ->
               LET new_command == in.edit
                   e2 == e1 \o << Ev("edit", 0, suggestion.command, new_command) >>
               IN  IF new_command = Interrupt
                   THEN Step(TRUE, FALSE, hist, e2, NoCall)
                   ELSE IF strip(new_command) # <<>>
                   THEN Step(FALSE, FALSE, hist, e2,
                             Call(new_command, FALSE, 0, "edit"))
                   ELSE Step(FALSE, FALSE, hist, e2, NoCall)
          [] choice = "alternatives" ->
               LET alt_command == handle_alternatives(suggestion.alternatives,
                                                      in.select)
                   e2 == e1 \o (IF suggestion.alternatives = <<>> THEN <<>>
                                ELSE << Ev("typed_select", 0, suggestion.command,
                                           in.select) >>)
                           \o << Ev("select", 0, suggestion.command, alt_command) >>
               IN  IF alt_command = Interrupt
                   THEN Step(TRUE, FALSE, hist, e2, NoCall)
                   ELSE IF alt_command # None /\ alt_command # <<>>
                   THEN Step(FALSE, FALSE, hist, e2,
                             Call(alt_command, FALSE, 0, "alternative"))
                   ELSE Step(FALSE, FALSE, hist, e2, NoCall)
          [] choice = "cancel" -> Step(FALSE, FALSE, hist, e1, NoCall)
          [] OTHER             -> Step(TRUE, FALSE, hist, e1, NoCall)

(***************************************************************************)
(* run_interactive_session: one pass of the loop                           *)
(***************************************************************************)
\* input() at line 70 raised EOFError: the terminal is at end of input
EndOfInput == << "<eof>" >>

\* what a pass does with the line read; raises names the exception
Pass(kind, raises) == [kind |-> kind, raises |-> raises]

\* lines 70-97: the pass up to the call of process_request
session_pass(line) ==
    IF line = Interrupt THEN Pass("raise", "KeyboardInterrupt")
    ELSE IF line = EndOfInput THEN Pass("raise", "EOFError")
    ELSE LET user_input == strip(line)
         IN  IF lower(user_input) \in { <<"q","u","i","t">>, <<"e","x","i","t">>, <<"b","y","e">> }
             THEN Pass("break", "")
             ELSE IF lower(user_input) \in { <<"h","e","l","p">>, <<"?">> }
             THEN Pass("continue", "")
             ELSE IF lower(user_input) = <<"c","l","e","a","r">>
             THEN Pass("continue", "")
             ELSE IF lower(user_input) = <<"h","i","s","t","o","r","y">>
             THEN Pass("continue", "")
             ELSE IF user_input = <<>>
             THEN Pass("continue", "")
             ELSE Pass("request", "")

\* the exception that left the operation whose events these are
exception_of(events) ==
    LET last == events[Len(events)]
    IN  CASE last.ev = "KeyError"    -> "KeyError"
          [] last.ev = "suggest_fix" -> "IndexError"
          [] last.ev = "input" /\ last.cmd = EndOfInput -> "EOFError"
          [] OTHER                   -> "KeyboardInterrupt"

except_clause_BreaksOnAny(exception) == "break"

\* lines 102-107
except_clause(exception) ==
    IF exception = "KeyboardInterrupt" THEN "break" ELSE "report"

\* how the pass ends: events and ret of the operation that ended
pass_end(events, ended) ==
    IF events = <<>> \/ events[1].ev \notin { "input", "request", "call" }
    THEN "continue"
    ELSE IF ended.kind = "raised" THEN except_clause(exception_of(events))
    ELSE IF events[1].ev = "input" THEN events[1].info
    ELSE "continue"

(***************************************************************************)
(* Config.  Dictionaries are objects: heap maps the address of each one to *)
(* its items, and an item whose value is a dictionary holds a reference to *)
(* it, so that dict.copy() copies references as Python does.               *)
(***************************************************************************)
Ref(address) == << "<dict>", address >>

\* isinstance(value, dict)
IsDict(value) == Len(value) = 2 /\ value[1] = "<dict>"

\* a dictionary read from a JSON file, not yet an object: its items in order
Json(items) == << "<json>", items >>

IsJson(value) == Len(value) = 2 /\ value[1] = "<json>"

\* the class attribute Config.DEFAULTS and its nested dictionary 'openai'
DefaultsAddress == <<"D","E","F","A","U","L","T","S">>

\* the address given to the dictionary created for key of the one at address
Nested(address, key) == address \o <<".">> \o key

\* Config.DEFAULTS: the items the configuration operations below touch
DEFAULTS ==
    (DefaultsAddress :>
         ((<<"p","r","o","v","i","d","e","r">> :> <<"o","p","e","n","a","i">>)
              @@ (<<"o","p","e","n","a","i">> :> Ref(Nested(DefaultsAddress, <<"o","p","e","n","a","i">>)))))
    @@ (Nested(DefaultsAddress, <<"o","p","e","n","a","i">>) :>
         ((<<"a","p","i","_","k","e","y">> :> None) @@ (<<"m","o","d","e","l">> :> <<"g","p","t","-","4">>)))

\* dict.copy(): a new dictionary at address to with the items of from
copy(heap, from, to) == (to :> heap[from]) @@ heap

\* d[key] = value for the dictionary at address
store(heap, address, key, value) ==
    [heap EXCEPT ![address] = (key :> value) @@ @]

\* text.split(sep)
RECURSIVE SplitOn(_, _)
SplitOn(text, sep) ==
    IF \A i \in 1..Len(text) : text[i] # sep THEN << text >>
    ELSE LET n == CHOOSE n \in 1..Len(text) :
                      text[n] = sep /\ \A j \in 1..(n - 1) : text[j] # sep
         IN  << SubSeq(text, 1, n - 1) >>
                 \o SplitOn(SubSeq(text, n + 1, Len(text)), sep)

\* the dictionary with these items; the values of items are texts
RECURSIVE ItemsToDict(_)
ItemsToDict(items) ==
    IF items = <<>> THEN <<>>
    ELSE (items[1][1] :> items[1][2]) @@ ItemsToDict(Tail(items))

\* Config._deep_merge(base, update): base an address, update items in order
RECURSIVE deep_merge(_, _, _)
deep_merge(heap, base, update) ==
    IF update = <<>> THEN heap
    ELSE LET key   == update[1][1]
             value == update[1][2]
             merged ==
                 IF /\ key \in DOMAIN heap[base]
                    /\ IsDict(heap[base][key])
                    /\ IsJson(value)
                 THEN deep_merge(heap, heap[base][key][2], value[2])
                 ELSE IF IsJson(value)
                 THEN store((Nested(base, key) :> ItemsToDict(value[2])) @@ heap,
                            base, key, Ref(Nested(base, key)))
                 ELSE store(heap, base, key, value)
         IN  deep_merge(merged, base, Tail(update))

\* if os.getenv(name)
Truthy(value) == value # None /\ value # <<>>

\* Config._load_env_vars(config): config an address
load_env_vars(heap, config, env) ==
    LET h1 == IF Truthy(env.SHELL_AI_PROVIDER)
              THEN store(heap, config, <<"p","r","o","v","i","d","e","r">>, env.SHELL_AI_PROVIDER)
              ELSE heap
        h2 == IF Truthy(env.OPENAI_API_KEY)
              THEN store(h1, h1[config][<<"o","p","e","n","a","i">>][2], <<"a","p","i","_","k","e","y">>,
                         env.OPENAI_API_KEY)
              ELSE h1
    IN  IF Truthy(env.OPENAI_MODEL)
        THEN store(h2, h2[config][<<"o","p","e","n","a","i">>][2], <<"m","o","d","e","l">>, env.OPENAI_MODEL)
        ELSE h2

\* Config._load_config for the instance whose dictionary goes to address self
load_config(heap, self, file, env) ==
    LET config == copy(heap, DefaultsAddress, self)
    IN  load_env_vars(IF file.exists THEN deep_merge(config, self, file.items)
                                     ELSE config,
                      self, env)

RECURSIVE get_walk(_, _, _, _)
get_walk(heap, value, keys, default) ==
    IF keys = <<>> THEN value
    ELSE IF IsDict(value) /\ keys[1] \in DOMAIN heap[value[2]]
    THEN get_walk(heap, heap[value[2]][keys[1]], Tail(keys), default)
    ELSE default

\* Config.get(key, default) of the instance whose dictionary is at self
get(heap, self, key, default) ==
    get_walk(heap, Ref(self), SplitOn(key, "."), default)

RECURSIVE set_walk(_, _, _, _)
set_walk(heap, config, keys, value) ==
    IF Len(keys) = 1 THEN store(heap, config, keys[1], value)
    ELSE IF keys[1] \notin DOMAIN heap[config]
    THEN set_walk(store((Nested(config, keys[1]) :> <<>>) @@ heap,
                        config, keys[1], Ref(Nested(config, keys[1]))),
                  Nested(config, keys[1]), Tail(keys), value)
    ELSE set_walk(heap, heap[config][keys[1]][2], Tail(keys), value)

\* Config.set(key, value)
set(heap, self, key, value) == set_walk(heap, self, SplitOn(key, "."), value)

\* what json.dump writes for value
RECURSIVE Dumped(_, _)
Dumped(heap, value) ==
    IF IsDict(value)
    THEN [k \in DOMAIN heap[value[2]] |-> Dumped(heap, heap[value[2]][k])]
    ELSE value

\* Config.save(): the heap afterwards and the file written
save(heap, self) ==
    LET save_config == <<"s","a","v","e","_","c","o","n","f","i","g">>
        copied == copy(heap, self, save_config)
        masked ==
            IF /\ <<"o","p","e","n","a","i">> \in DOMAIN copied[save_config]
               /\ <<"a","p","i","_","k","e","y">> \in DOMAIN copied[copied[save_config][<<"o","p","e","n","a","i">>][2]]
            THEN store(copied, copied[save_config][<<"o","p","e","n","a","i">>][2], <<"a","p","i","_","k","e","y">>, <<"*","*","*">>)
            ELSE copied
    IN  [heap    |-> [a \in DOMAIN heap |-> masked[a]],
         written |-> Dumped(masked, Ref(save_config))]

(***************************************************************************)
(* Bounds and input sets                                                   *)
(***************************************************************************)
\* top-level operations start while the execution log is shorter than this
MaxHistory == 1

\* deepest recursive activation of execute_command that is explored
MaxDepth == 2

\* messages passed to add_to_history that are explored
MaxMessages == 3

\* largest configured history.max_entries that is explored
MaxEntries == 2

\* Config instances created
MaxInstances == 2

\* Config.DEFAULTS['history']['max_entries']
DefaultMaxEntries == 20


Suggestions ==
    { Suggestion(c, << CmdLs, CmdSudo >>, safe) :
          c \in { CmdLs, CmdSudo }, safe \in BOOLEAN }

NoReply == [kind |-> "none", suggestion |-> error_response]

\* a reply that is a JSON object without the key 'command'
IncompleteSuggestion ==
    [explanation |-> <<"?">>, alternatives |-> <<>>, safe_to_auto_execute |-> TRUE]

ProviderReplies ==
    { [kind |-> "suggestion", suggestion |-> s] : s \in Suggestions }
    \cup { [kind |-> "unparsable",  suggestion |-> parse_fallback],
           [kind |-> "unavailable", suggestion |-> error_response],
           [kind |-> "incomplete",  suggestion |-> IncompleteSuggestion] }

CmdParam == <<"e","c","h","o"," ","$","{","a","}">>

\* the texts given to validate_command and is_dangerous called directly
CheckedTexts ==
    Commands \cup { CmdParam, << "\t", "\n" >>, <<"r","m"," "," ","-","R","F"," ","/","*">>, <<"l","s"," ","-","l","a">>,
                    <<"a",">",">","f",";","b",">","g">>, <<"a",">",">","f">>, <<"s","h"," ","a","|","w","c">>, <<"a"," ","|"," ","s","h">> }

UserInputs ==
    { <<"/">> \o c : c \in Commands } \cup { <<"/"," ","l","s">>, <<"l","i","s","t"," ","f","i","l","e","s">> }

ConfirmInputs == { <<"Y">>, <<"y","e","s">>, <<"n">>, <<>>, Interrupt }

HelpInputs == { <<" ","Y","e","s">>, <<"n">>, Interrupt }

ChoiceLines ==
    { << <<"x">>, <<"Y","E","S"," ">> >>, << <<"n">> >>, << <<"e">> >>, << <<"a">> >>,
      << <<"q">> >>, << Interrupt >> }

EditInputs == { CmdEmpty, CmdBlank, CmdSudo, Interrupt }

SelectInputs == { <<"c">>, <<"1">>, <<" ","2">>, <<"0">>, <<"3">>, <<"-","1">>, <<"x">>, Interrupt }

\* what the assistant reads from its Config: the provider selected and
\* history.max_entries
AssistantConfig(is_openai, max_entries) ==
    [is_openai |-> is_openai, max_entries |-> max_entries]

AssistantConfigs ==
    { AssistantConfig(p, n) : p \in BOOLEAN, n \in 0..MaxEntries }

ConversationInputs == { <<"l","i","s","t"," ","f","i","l","e","s">>, <<"u","n","d","o">> }

ConversationReplies ==
    { [kind |-> "suggestion", suggestion |-> Suggestion(CmdLs, <<>>, TRUE)],
      [kind |-> "unparsable",  suggestion |-> parse_fallback],
      [kind |-> "unavailable", suggestion |-> error_response] }

Roles == { "user", "assistant" }

\* the lines read at the session prompt
SessionLines ==
    UserInputs \cup { <<"q","u","i","t">>, <<" ","E","X","I","T"," ">>, <<"B","y","e">>, <<"h","e","l","p">>, <<"?">>, <<"c","l","e","a","r">>, <<"H","i","s","t","o","r","y">>,
                     <<>>, <<" "," ">>, <<" ","/","l","s"," ">>, Interrupt, EndOfInput }

\* the lists and the lines given to handle_alternatives called directly
AlternativeLists == { <<>>, << CmdLs >>, << CmdLs, CmdSudo >> }

AlternativeChoices == SelectInputs \cup { <<"C">>, <<"+","1">>, <<"2"," ">>, <<"1",".","0">>, <<>> }

\* the configuration file: absent, or the items of its JSON object
File(exists, items) == [exists |-> exists, items |-> items]

Files ==
    { File(FALSE, <<>>),
      File(TRUE, << << <<"p","r","o","v","i","d","e","r">>, <<"o","l","l","a","m","a">> >> >>),
      File(TRUE, << << <<"o","p","e","n","a","i">>, Json(<< << <<"m","o","d","e","l">>, <<"g","p","t","-","3",".","5">> >> >>) >> >>),
      File(TRUE, << << <<"u","i">>, Json(<< << <<"c","o","l","o","r">>, <<"o","n">> >> >>) >> >>) }

Environment(provider, api_key, model) ==
    [SHELL_AI_PROVIDER |-> provider, OPENAI_API_KEY |-> api_key,
     OPENAI_MODEL |-> model]

Environments ==
    { Environment(None, None, None), Environment(<<"o","l","l","a","m","a">>, None, None),
      Environment(None, <<"s","k","-","1">>, None), Environment(None, <<>>, <<"g","p","t","-","3",".","5">>) }

\* the keys and values given to Config.set
Settings ==
    { << <<"p","r","o","v","i","d","e","r">>, <<"o","l","l","a","m","a">> >>, << <<"o","p","e","n","a","i",".","m","o","d","e","l">>, <<"o","1">> >>,
      << <<"u","i",".","c","o","l","o","r">>, <<"o","f","f">> >> }

\* the keys read with Config.get
Keys == { <<"p","r","o","v","i","d","e","r">>, <<"o","p","e","n","a","i",".","a","p","i","_","k","e","y">>, <<"o","p","e","n","a","i",".","m","o","d","e","l">>, <<"u","i",".","c","o","l","o","r">> }

\* the address of the dictionary self.config of the i-th instance created
InstanceAddress(i) == << "c", Digits[i + 1] >>

NoInputs == Inputs(NoInput, NoProc, NoInput, NoReply, << Interrupt >>, NoInput, NoInput)

(***************************************************************************)
(* State                                                                   *)
(***************************************************************************)
VARIABLES
    history,          \* CommandExecutor.history
    trace,            \* events of the operation or activation that ran last
    pending,          \* the call of execute_command about to run, or NoCall
    ret,              \* how the last operation ended and what it returned
    provider_calls,   \* get_command_suggestion calls made by execute_command
                      \* since its top-level call
    fix_runs,         \* fix commands run by execute_command since then
    twin,             \* events of the same activation had the suggestion's
                      \* safe_to_auto_execute flag been the opposite
    session,          \* "running" until the loop of run_interactive_session ends
    conversation_history,   \* ShellAIAssistant.conversation_history
    added,            \* every message passed to add_to_history, in order
    assistant_config, \* the provider and history.max_entries of the assistant
    heap,             \* the dictionaries of Config.DEFAULTS and of the instances
    instances,        \* the address of self.config of each Config created
    written           \* what Config.save wrote last

\* the conversation kept by the assistant
conversation == << conversation_history, added, assistant_config >>

\* the executor and the request pipeline
pipeline == << history, pending, provider_calls, fix_runs, twin, session >>

\* the configuration objects
configuration == << heap, instances, written >>

\* what the operations of the pipeline leave alone
aside == << conversation, configuration >>

vars == << history, trace, pending, ret, provider_calls, fix_runs, twin,
           session, conversation, configuration >>

Returned(kind, val) == [kind |-> kind, val |-> val]

PipelineInit ==
    /\ history = <<>>
    /\ trace = <<>>
    /\ pending = NoCall
    /\ ret = Returned("idle", FALSE)
    /\ provider_calls = 0
    /\ fix_runs = 0
    /\ twin = <<>>
    /\ session = "running"

\* ShellAIAssistant.__init__, line 33, for an assistant given one of configs
ConversationInit(configs) ==
    /\ conversation_history = <<>>
    /\ added = <<>>
    /\ assistant_config \in configs

\* the class is loaded and no Config has been created
ConfigInit ==
    /\ heap = DEFAULTS
    /\ instances = <<>>
    /\ written = <<>>

\* The operations of Spec draw the provider's reply from ProviderReplies
\* whatever was said before and read nothing of the conversation; its
\* bookkeeping is followed by the operations of ConversationSpec.
Init ==
    /\ PipelineInit
    /\ ConversationInit({ AssistantConfig(TRUE, DefaultMaxEntries) })
    /\ ConfigInit

\* the caller is ready to start an operation
Idle ==
    /\ session = "running"
    /\ ~pending.active
    /\ ret.kind = "idle"
    /\ Len(history) < MaxHistory

Spawns(events) == \E i \in 1..Len(events) : events[i].ev = "spawn"

Count(events, ev) == Cardinality({ i \in 1..Len(events) : events[i].ev = ev })

\* the process outcomes to draw: only a spawned command has one
ProcsIf(spawns) == IF spawns THEN ProcOutcomes ELSE { NoProc }

(***************************************************************************)
(* Operations of the executor called directly                              *)
(***************************************************************************)
Execute(command, dry_run) ==
    /\ Idle
    /\ \E proc \in ProcsIf(Spawns(execute(command, dry_run, NoProc, history, 0).events)) :
         \E x \in { execute(command, dry_run, proc, history, 0) } :
             /\ history' = x.history
             /\ trace' = x.events
             /\ ret' = IF x.raised THEN Returned("raised", FALSE)
                       ELSE Returned("outcome", x.result)
    /\ UNCHANGED << pending, provider_calls, fix_runs, twin, session, aside >>

ExecuteWithConfirmation(command, auto_confirm) ==
    /\ Idle
    /\ \E response \in (IF NeedsConfirmation(is_dangerous(command)[1], auto_confirm)
                        THEN ConfirmInputs ELSE { NoInput }) :
       \E proc \in ProcsIf(Spawns(execute_with_confirmation(
                       command, auto_confirm, response, NoProc, history, 0).events)) :
         \E x \in { execute_with_confirmation(command, auto_confirm, response,
                                                proc, history, 0) } :
             /\ history' = x.history
             /\ trace' = x.events
             /\ ret' = IF x.raised THEN Returned("raised", FALSE)
                       ELSE Returned("outcome", x.result)
    /\ UNCHANGED << pending, provider_calls, fix_runs, twin, session, aside >>

\* the caller is ready to start an operation that does not run a command
Ready == session = "running" /\ ~pending.active /\ ret.kind = "idle"

\* an operation that only answers: events, returned value
Answers(events, kind, val) ==
    /\ trace' = events
    /\ ret' = Returned(kind, val)
    /\ UNCHANGED << history, pending, provider_calls, fix_runs, twin, session, aside >>

ValidateCommand(command) ==
    Idle /\ Answers(<< Ev("validate_command", 0, command, validate_command(command)) >>,
            "validation", validate_command(command))

IsDangerous(command) ==
    Idle /\ Answers(<< Ev("is_dangerous", 0, command, is_dangerous(command)) >>,
            "verdict", is_dangerous(command))

\* the outcome of the latest attempt among events that was spawned and failed
LastFailedAttempt(events) ==
    LET failed == { i \in 1..Len(events) :
                      /\ events[i].ev = "outcome"
                      /\ ~events[i].info.success
                      /\ \E j \in 1..(i - 1) : /\ events[j].ev = "spawn"
                                                /\ events[j].att = events[i].att }
    IN  IF failed = {} THEN None
        ELSE events[CHOOSE i \in failed : \A j \in failed : j <= i].info

\* get_last_error called by the executor's caller, at the start or right
\* after execute or execute_with_confirmation returned; the event records
\* what that call attempted
GetLastError ==
    /\ session = "running"
    /\ ~pending.active
    /\ ret.kind \in { "idle", "outcome" }
    /\ Answers(<< Ev("get_last_error", 0, <<>>,
                      [returned  |-> get_last_error(history),
                       attempted |-> LastFailedAttempt(trace)]) >>,
               "last_error", get_last_error(history))

\* what the caller passes to CommandExecutor(config): nothing, or a
\* dictionary with the signature texts of 'safety.dangerous_patterns'
Configs == { << >>, << <<"l","s">> >>, << <<"m","k","f","s">>, <<"f","o","r","m","a","t">> >> }

\* CommandExecutor(config).is_dangerous(command) of a new executor
ConfiguredIsDangerous(config, command) ==
    Idle /\ Answers(<< Ev("configured", 0, command,
                          [dangerous_patterns |-> config,
                           verdict |-> is_dangerous(command)]) >>,
                    "verdict", is_dangerous(command))

SuggestFix(error_result) ==
    Ready /\ \E x \in { suggest_fix(error_result) } :
        Answers(<< Ev("suggest_fix", 0, error_result.command,
                      FixCall(error_result, x)) >>,
                IF x.raised THEN "raised" ELSE "suggestions",
                IF x.raised THEN FALSE ELSE x.suggestions)

GetCommandSuggestion(reply) ==
    Idle /\ Answers(<< Ev("get_command_suggestion", 0, <<>>, reply.kind) >>,
            "suggestion", get_command_suggestion(reply))

\* handle_alternatives(alternatives) with choice typed at its prompt
HandleAlternatives(alternatives, choice) ==
    Idle /\ \E selected \in { handle_alternatives(alternatives, choice) } :
        Answers(<< Ev("handle_alternatives", 0, choice,
                      [alternatives |-> alternatives, returned |-> selected]) >>,
                IF selected = Interrupt THEN "raised" ELSE "selected",
                selected)

(***************************************************************************)
(* Operations of the assistant                                             *)
(***************************************************************************)
\* the answers read after a failed result: help, reply, lines
RepairInputs ==
    UNION { IF IsYes(h)
            THEN { << h, r, l >> : r \in ProviderReplies, l \in ChoiceLines }
            ELSE { << h, NoReply, << Interrupt >> >> } : h \in HelpInputs }

RepairInputsIf(needed) ==
    IF needed THEN RepairInputs ELSE { << NoInput, NoReply, << Interrupt >> >> }

RequestStep(user_input, in) ==
    \E st \in { process_request(user_input, in, history) } :
        /\ st.next.active => st.next.att <= MaxDepth
        /\ history' = st.history
        /\ trace' = st.events
        /\ pending' = st.next
        /\ ret' = IF st.raised THEN Returned("raised", FALSE)
                  ELSE IF st.next.active THEN Returned("pending", FALSE)
                  ELSE Returned("none", FALSE)
        /\ provider_calls' = 0
        /\ fix_runs' = 0
        /\ twin' = <<>>
        /\ UNCHANGED << session, aside >>

\* the inputs are drawn as the handler comes to read them
ProcessRequest(user_input) ==
    /\ Idle
    /\ IF StartsWith(user_input, <<"/">>)
       THEN LET direct_command == strip(Tail(user_input))
            IN  IF direct_command = <<>>
                THEN RequestStep(user_input, NoInputs)
                ELSE \E proc \in ProcsIf(Spawns(
                            execute(direct_command, FALSE, NoProc, history, 0).events)) :
                       \E x \in { execute(direct_command, FALSE, proc, history, 0) } :
                           \E t \in RepairInputsIf(~x.raised /\ NeedsRepair(x.result)) :
                             RequestStep(user_input,
                                         Inputs(NoInput, proc, t[1], t[2], t[3],
                                                NoInput, NoInput))
       ELSE \E reply \in ProviderReplies, lines \in ChoiceLines :
              LET choice == get_user_choice(lines)
              IN  \E edit \in (IF choice = "edit" THEN EditInputs ELSE { NoInput }),
                     select \in (IF choice = "alternatives" THEN SelectInputs
                                                            ELSE { NoInput }) :
                    RequestStep(user_input,
                                Inputs(NoInput, NoProc, NoInput, reply, lines,
                                       edit, select))

\* the call with the provider's flag inverted
Twin(call) == [call EXCEPT !.safe = ~call.safe]

EwcOf(call, response, proc, hist) ==
    execute_with_confirmation(call.command, call.safe, response, proc, hist,
                              call.att)

Asks(call) == NeedsConfirmation(is_dangerous(call.command)[1], call.safe)

\* one activation of execute_command; for a call made with the provider's
\* flag the inputs drawn also cover the call with the flag inverted
ExecuteCommand ==
    /\ pending.active
    /\ LET paired == pending.origin = "suggestion"
       IN
       \E response \in (IF Asks(pending) \/ (paired /\ Asks(Twin(pending)))
                        THEN ConfirmInputs ELSE { NoInput }) :
       \E proc \in ProcsIf(
               \/ Spawns(EwcOf(pending, response, NoProc, history).events)
               \/ paired /\ Spawns(EwcOf(Twin(pending), response, NoProc, history).events)) :
         \E x \in { Entered(pending, EwcOf(pending, response, proc, history)) } :
         \E t \in RepairInputsIf(~x.raised /\ NeedsRepair(x.result)) :
         \E st \in { execute_command(pending,
                         Inputs(response, proc, t[1], t[2], t[3], NoInput, NoInput),
                         history) } :
               /\ st.next.active => st.next.att <= MaxDepth
               /\ history' = st.history
               /\ trace' = st.events
               /\ pending' = st.next
               /\ ret' = IF st.raised THEN Returned("raised", FALSE)
                         ELSE IF st.next.active THEN Returned("pending", FALSE)
                         ELSE Returned("bool", st.ret)
               /\ provider_calls' = provider_calls + Count(st.events, "provider")
               /\ fix_runs' = fix_runs +
                      (IF pending.origin = "fix" /\ Spawns(st.events) THEN 1 ELSE 0)
               /\ twin' = IF paired
                          THEN EwcOf(Twin(pending), response, proc, history).events
                          ELSE <<>>
               /\ UNCHANGED << session, aside >>

\* one pass of the loop reads line: lines 70-100
RunInteractiveSession(line) ==
    /\ Idle
    /\ \E pass \in { session_pass(line) } :
          IF pass.kind = "request"
          THEN ProcessRequest(strip(line))
          ELSE Answers(<< Ev("input", 0, line, pass.kind) >>,
                       IF pass.kind = "raise" THEN "raised" ELSE "loop", FALSE)

\* the caller has taken the result of the operation that ended; for an
\* operation of the session that is the end of the pass, lines 100-107: the
\* loop ends, or reports the exception and prompts again, or prompts again
Prompt ==
    /\ session = "running"
    /\ ~pending.active
    /\ ret.kind # "idle"
    /\ \E end \in { pass_end(trace, ret) } :
          /\ session' = IF end = "break" THEN "ended" ELSE "running"
          /\ trace' = IF end = "report"
                       THEN << Ev("report", 0, <<>>, exception_of(trace)) >>
                       ELSE <<>>
    /\ ret' = Returned("idle", FALSE)
    /\ provider_calls' = 0
    /\ fix_runs' = 0
    /\ twin' = <<>>
    /\ UNCHANGED << history, pending, aside >>

\* the inputs to draw for an operation that starts from Idle
WhenIdle(inputs) == IF Idle THEN inputs ELSE {}

Next ==
    \/ \E command \in WhenIdle(Commands), dry_run \in BOOLEAN :
           Execute(command, dry_run)
    \/ \E command \in WhenIdle(Commands), auto_confirm \in BOOLEAN :
           ExecuteWithConfirmation(command, auto_confirm)
    \/ \E line \in WhenIdle(SessionLines) : RunInteractiveSession(line)
    \/ ExecuteCommand
    \/ \E command \in WhenIdle(CheckedTexts) : ValidateCommand(command)
    \/ \E command \in WhenIdle(CheckedTexts) : IsDangerous(command)
    \/ GetLastError
    \/ \E config \in WhenIdle(Configs), command \in { CmdLs, CmdRm } :
           ConfiguredIsDangerous(config, command)
    \/ \E error_result \in WhenIdle(ErrorResults)
                             \cup { h \in { get_last_error(history) } : h # None } :
           SuggestFix(error_result)
    \/ \E reply \in WhenIdle(ProviderReplies) : GetCommandSuggestion(reply)
    \/ \E alternatives \in WhenIdle(AlternativeLists), choice \in AlternativeChoices :
           HandleAlternatives(alternatives, choice)
    \/ Prompt

Spec == Init /\ [][Next]_vars

(***************************************************************************)
(* The conversation of the assistant                                       *)
(***************************************************************************)
\* add_to_history called on the assistant
AddToHistory(role, content) ==
    /\ Len(added) < MaxMessages
    /\ conversation_history' =
           add_to_history(conversation_history, role, content,
                          assistant_config.max_entries)
    /\ added' = Append(added, Message(role, content))
    /\ trace' = << Ev("add_to_history", 0, content, role) >>
    /\ ret' = Returned("none", FALSE)
    /\ UNCHANGED << assistant_config, pipeline, configuration >>

\* get_command_suggestion(user_input) with what the provider did; the event
\* records the conversation and the number of messages before the call
Suggest(user_input, reply) ==
    /\ Len(added) + 2 <= MaxMessages
    /\ \E x \in { suggest(assistant_config, conversation_history, user_input,
                           reply) } :
          /\ conversation_history' = x.conversation
          /\ added' = added \o x.messages
          /\ trace' = << Ev("suggest", 0, user_input,
                            [kind   |-> reply.kind,
                             before |-> conversation_history,
                             total  |-> Len(added)]) >>
          /\ ret' = Returned("suggestion", x.suggestion)
    /\ UNCHANGED << assistant_config, pipeline, configuration >>

ConversationNext ==
    \/ \E role \in Roles, content \in ConversationInputs :
           AddToHistory(role, content)
    \/ \E user_input \in ConversationInputs, reply \in ConversationReplies :
           Suggest(user_input, reply)

\* an assistant with any of the configurations
ConversationStart ==
    PipelineInit /\ ConversationInit(AssistantConfigs) /\ ConfigInit

ConversationSpec == ConversationStart /\ [][ConversationNext]_vars

(***************************************************************************)
(* The configuration objects                                               *)
(***************************************************************************)
\* an operation on the i-th Config: events, heap, instances, file written
Configured(ev, key, i, h, created, file) ==
    /\ heap' = h
    /\ instances' = created
    /\ written' = file
    /\ trace' = << Ev(ev, 0, key, i) >>
    /\ ret' = Returned("none", FALSE)
    /\ UNCHANGED << pipeline, conversation >>

\* Config(config_file) with the file and the environment it finds
NewConfig(file, env) ==
    /\ Len(instances) < MaxInstances
    /\ LET self == InstanceAddress(Len(instances) + 1)
       IN  Configured("Config", <<>>, Len(instances) + 1,
                      load_config(heap, self, file, env),
                      Append(instances, self), written)

ConfigSet(i, key, value) ==
    Configured("set", key, i, set(heap, instances[i], key, value), instances,
               written)

ConfigSave(i) ==
    \E x \in { save(heap, instances[i]) } :
        Configured("save", <<>>, i, x.heap, instances, x.written)

ConfigNext ==
    \/ \E file \in Files, env \in Environments : NewConfig(file, env)
    \/ \E i \in 1..Len(instances), setting \in Settings :
           ConfigSet(i, setting[1], setting[2])
    \/ \E i \in 1..Len(instances) : ConfigSave(i)

ConfigStart ==
    PipelineInit /\ ConversationInit({ AssistantConfig(TRUE, DefaultMaxEntries) })
        /\ ConfigInit

ConfigSpec == ConfigStart /\ [][ConfigNext]_vars

TypeOK ==
    /\ Len(history) <= MaxHistory + MaxDepth
    /\ pending.att \in 0..MaxDepth

(***************************************************************************)
(* Properties                                                              *)
(***************************************************************************)
\* an explicit affirmative answer
Affirmative(text) == strip(lower(text)) \in { <<"y">>, <<"y","e","s">> }

Dangerous(command) == is_dangerous(command)[1]

Indices == 1..Len(trace)

\* the confirmation question of the attempt of event i was answered
\* affirmatively before event i
ConfirmedBefore(i) ==
    \E j \in 1..(i - 1) :
        /\ trace[j].ev = "answer"
        /\ trace[j].att = trace[i].att
        /\ trace[j].cmd = trace[i].cmd
        /\ Affirmative(trace[j].info)

SpawnedIn(events, att) ==
    \E i \in 1..Len(events) : events[i].ev = "spawn" /\ events[i].att = att

AskedIn(events, att) ==
    \E i \in 1..Len(events) : events[i].ev = "ask" /\ events[i].att = att

\* the events of an activation of ShellAIAssistant's repair flow
InRepairFlow == \E i \in Indices : trace[i].ev \in { "call", "direct" }

FixOrigins == { "fix", "direct_fix" }

HasInjectionMarker(command) ==
    \/ Contains(command, << Backquote >>)
    \/ Contains(command, << "$", "(" >>)
    \/ Contains(command, << "$", "{" >>)

\* C1: a command the classifier judges dangerous is spawned only after an
\* affirmative confirmation answer given in the same attempt, on every entry
\* path and also when the caller asks for auto-execution.
C1_DangerousSpawnOnlyConfirmed ==
    \A i \in Indices :
        (trace[i].ev = "spawn" /\ Dangerous(trace[i].cmd)) => ConfirmedBefore(i)

\* C2: when the confirmation question of a dangerous command (auto_confirm
\* false) gets any answer other than an explicit affirmative, the attempt's
\* outcome is the denial (success false, returncode -1) and nothing is spawned.
C2_DenyByDefault ==
    \A j \in Indices :
        (/\ trace[j].ev = "answer"
         /\ trace[j].info # Interrupt
         /\ ~Affirmative(trace[j].info))
        => /\ ~SpawnedIn(trace, trace[j].att)
           /\ \E k \in Indices :
                /\ k > j
                /\ trace[k].ev = "outcome"
                /\ trace[k].att = trace[j].att
                /\ ~trace[k].info.success
                /\ trace[k].info.returncode = -1
           /\ (trace[1].ev = "ewc") =>
                /\ ret.kind = "outcome"
                /\ ~ret.val.success
                /\ ret.val.returncode = -1

\* a dangerous command whose question was answered with the empty line was
\* denied
C2_Witness ==
    /\ trace # <<>>
    /\ trace[1].ev = "ewc"
    /\ \E j \in Indices :
         /\ trace[j].ev = "answer"
         /\ trace[j].info = <<>>
         /\ Dangerous(trace[j].cmd)
    /\ ret.kind = "outcome"
    /\ ret.val.returncode = -1

\* C3: two suggestions with the same command that differ only in
\* safe_to_auto_execute are gated alike after the choice 'execute': the
\* question is asked in both runs or in neither, and the same commands are
\* spawned.
C3_FlagDoesNotDecideGate ==
    twin # <<>> =>
        /\ AskedIn(trace, 0) <=> AskedIn(twin, 0)
        /\ SpawnedIn(trace, 0) <=> SpawnedIn(twin, 0)

\* C4: execute_with_confirmation asks the question, showing the command and
\* its risk reasons, exactly when the verdict is dangerous and auto_confirm
\* is not set; otherwise it asks nothing and hands the command to execute.
C4_GateFromIdle ==
    \A i \in Indices :
        trace[i].ev = "ewc" =>
            /\ AskedIn(trace, trace[i].att)
                 <=> (Dangerous(trace[i].cmd) /\ ~trace[i].info)
            /\ \A j \in Indices :
                 (trace[j].ev = "ask" /\ trace[j].att = trace[i].att) =>
                     /\ trace[j].cmd = trace[i].cmd
                     /\ trace[j].info = is_dangerous(trace[i].cmd)[2]
                     /\ trace[j].info # <<>>
            /\ ~AskedIn(trace, trace[i].att) =>
                 /\ \E j \in Indices :
                      /\ j > i
                      /\ trace[j].ev = "execute"
                      /\ trace[j].att = trace[i].att
                      /\ trace[j].cmd = trace[i].cmd
                 /\ \A j \in Indices :
                      trace[j].att = trace[i].att => trace[j].ev # "answer"

\* a dangerous command with auto_confirm set was spawned unasked
C4_Witness ==
    \E i \in Indices :
        /\ trace[i].ev = "ewc"
        /\ trace[i].info
        /\ Dangerous(trace[i].cmd)
        /\ ~AskedIn(trace, trace[i].att)
        /\ SpawnedIn(trace, trace[i].att)

\* C5: a fix command of the repair flow is never run with auto-confirm: its
\* verdict is derived by the classifier and, when dangerous, it is spawned
\* only after its own affirmative confirmation, whatever the provider's flag.
C5_FixGatedAfresh ==
    /\ (pending.active /\ pending.origin \in FixOrigins) => ~pending.safe
    /\ \A i \in Indices :
         (trace[i].ev = "call" /\ trace[i].info \in FixOrigins) =>
             /\ \A j \in Indices :
                  (trace[j].ev = "ewc" /\ trace[j].att = trace[i].att)
                      => ~trace[j].info
             /\ \A k \in Indices :
                  (/\ trace[k].ev = "spawn"
                   /\ trace[k].att = trace[i].att
                   /\ Dangerous(trace[k].cmd))
                  => ConfirmedBefore(k)

\* a dangerous fix command was asked about and then spawned
C5_Witness ==
    \E i \in Indices :
        /\ trace[i].ev = "call"
        /\ trace[i].info \in FixOrigins
        /\ Dangerous(trace[i].cmd)
        /\ AskedIn(trace, trace[i].att)
        /\ SpawnedIn(trace, trace[i].att)

\* C6: one top-level call of execute_command asks the provider at most once
\* and runs at most one fix command.
C6_RepairBound == provider_calls <= 1 /\ fix_runs <= 1

\* C7: in the repair flow an outcome that succeeded or has returncode -1 ends
\* the call: no help is offered, the provider is not asked, nothing further
\* is executed, and execute_command returns that outcome's success.
C7_NoRepairUnlessRealFailure ==
    \A i \in Indices :
        (/\ InRepairFlow
         /\ trace[i].ev = "outcome"
         /\ (trace[i].info.success \/ trace[i].info.returncode = -1))
        => /\ i = Len(trace)
           /\ ~pending.active
           /\ trace[1].ev = "call" => ret = Returned("bool", trace[i].info.success)

\* a fix-less end after a timeout in execute_command
C7_Witness ==
    /\ trace # <<>>
    /\ trace[1].ev = "call"
    /\ trace[Len(trace)].ev = "outcome"
    /\ trace[Len(trace)].info.returncode = -1
    /\ ~trace[Len(trace)].info.success
    /\ SpawnedIn(trace, trace[1].att)

\* C8: on every entry path a command is spawned only after the validator
\* accepted it and the classifier classified it, with the gate after both
\* (validate, classify, gate, run); an empty or whitespace-only command and a
\* command containing an injection marker is never spawned.
C8_PipelineOrder ==
    /\ \A i \in Indices :
         trace[i].ev \in { "ask", "spawn" } =>
             \E v \in 1..(i - 1), c \in 1..(i - 1) :
                 /\ v < c
                 /\ trace[v].ev = "validate" /\ trace[v].att = trace[i].att
                 /\ trace[v].cmd = trace[i].cmd /\ trace[v].info
                 /\ trace[c].ev = "classify" /\ trace[c].att = trace[i].att
                 /\ trace[c].cmd = trace[i].cmd
    /\ \A i \in Indices :
         trace[i].ev = "spawn" =>
             /\ strip(trace[i].cmd) # <<>>
             /\ ~HasInjectionMarker(trace[i].cmd)

\* C9 as stated: execute with dry_run spawns nothing and returns success
\* with returncode 0 for every command text.
C9_DryRunAlwaysSucceeds ==
    \A i \in Indices :
        (trace[i].ev = "execute" /\ trace[i].info) =>
            /\ ~SpawnedIn(trace, trace[i].att)
            /\ \E j \in Indices :
                 /\ j > i
                 /\ trace[j].ev = "outcome"
                 /\ trace[j].info.success
                 /\ trace[j].info.returncode = 0

\* C9 amended: execute with dry_run spawns nothing for every command text;
\* it returns success with returncode 0 when the validator accepts the
\* command, and the rejection (success false, returncode -1) otherwise.
C9_DryRunPure ==
    \A i \in Indices :
        (trace[i].ev = "execute" /\ trace[i].info) =>
            /\ ~SpawnedIn(trace, trace[i].att)
            /\ \E j \in Indices :
                 /\ j > i
                 /\ trace[j].ev = "outcome"
                 /\ ret = Returned("outcome", trace[j].info)
                 /\ IF ValidationResult(trace[i].cmd)[1]
                    THEN trace[j].info.success /\ trace[j].info.returncode = 0
                    ELSE ~trace[j].info.success /\ trace[j].info.returncode = -1

\* a dry run of a dangerous command returned success
C9_Witness ==
    \E i \in Indices :
        /\ trace[i].ev = "execute"
        /\ trace[i].info
        /\ Dangerous(trace[i].cmd)
        /\ ret.kind = "outcome"
        /\ ret.val.success

\* C10: the outcome of every attempt that reached the runner (exit 0,
\* non-zero exit, timeout, spawn failure) is appended to history, the latest
\* attempt last.
C10_EveryRunnerOutcomeLogged ==
    \A i \in Indices :
        (trace[i].ev = "outcome" /\ SpawnedIn(trace, trace[i].att)) =>
            /\ history # <<>>
            /\ history[Len(history)] = trace[i].info

\* C11: the execution log is append-only: over every operation the earlier
\* history is a prefix of the later one, and one operation (which calls
\* execute at most once) appends at most one entry.
C11_AppendOnly ==
    [][/\ Len(history') >= Len(history)
       /\ SubSeq(history', 1, Len(history)) = history
       /\ Len(history') <= Len(history) + 1]_vars

\* get_last_error answered on a log that grew twice
C11_Witness ==
    /\ Len(history) >= 2
    /\ ret.kind = "last_error"
    /\ ret.val = history[Len(history)]

\* C12: an interrupt while execute_with_confirmation waits for the answer
\* resolves to Denied: nothing is spawned and the call returns the denial
\* (success false, returncode -1) to its caller.
C12_CancelledConfirmationDenied ==
    \A j \in Indices :
        (trace[j].ev = "answer" /\ trace[j].info = Interrupt) =>
            /\ ~SpawnedIn(trace, trace[j].att)
            /\ \E k \in Indices :
                 /\ k > j
                 /\ trace[k].ev = "outcome"
                 /\ trace[k].att = trace[j].att
                 /\ ~trace[k].info.success
                 /\ trace[k].info.returncode = -1
            /\ trace[1].ev = "ewc" => ret.kind = "outcome"

\* an operation ended without the user or the process being interrupted
Uninterrupted ==
    \A i \in Indices :
        /\ trace[i].ev = "answer" => trace[i].info # Interrupt
        /\ trace[i].ev = "spawn" => trace[i].info # "interrupt"

\* C13: every public operation of the engine returns a value: validate_command
\* and is_dangerous for every text, execute and execute_with_confirmation an
\* outcome for every failure kind, suggest_fix a sequence for every outcome.
C13_AlwaysReturnsAValue ==
    /\ \A i \in Indices : trace[i].ev = "suggest_fix" => ~trace[i].info.raised
    /\ (trace # <<>> /\ trace[1].ev \in { "validate_command", "is_dangerous",
                                          "suggest_fix" })
           => ret.kind # "raised"
    /\ (trace # <<>> /\ trace[1].ev \in { "execute", "ewc" } /\ Uninterrupted)
           => ret.kind = "outcome"

TimeoutMessage == <<"C","o","m","m","a","n","d"," ","t","i","m","e","d"," ","o","u","t"," ","a","f","t","e","r"," ","3","0"," ","s","e","c","o","n","d","s">>

\* C14: when the spawned command times out, the attempt's outcome has
\* success false, returncode -1, empty stdout and the timeout message in
\* stderr, and the command is spawned once only in that call.
C14_TimeoutIsTerminal ==
    \A i \in Indices :
        (trace[i].ev = "spawn" /\ trace[i].info = "timeout") =>
            /\ \E k \in Indices :
                 /\ k > i
                 /\ trace[k].ev = "outcome"
                 /\ trace[k].att = trace[i].att
                 /\ ~trace[k].info.success
                 /\ trace[k].info.returncode = -1
                 /\ trace[k].info.stdout = <<>>
                 /\ trace[k].info.stderr = TimeoutMessage
                 /\ trace[1].ev \in { "execute", "ewc" }
                      => ret = Returned("outcome", trace[k].info)
            /\ Cardinality({ j \in Indices : /\ trace[j].ev = "spawn"
                                              /\ trace[j].att = trace[i].att }) = 1

\* execute returned the timeout outcome
C14_Witness ==
    /\ trace # <<>>
    /\ trace[1].ev = "execute"
    /\ \E i \in Indices : trace[i].ev = "spawn" /\ trace[i].info = "timeout"
    /\ ret.kind = "outcome"
    /\ ret.val.stderr = TimeoutMessage

SpawnKindIn(att) ==
    { trace[j].info : j \in { j \in Indices : /\ trace[j].ev = "spawn"
                                               /\ trace[j].att = att } }

\* C15: in every outcome success holds exactly when returncode is 0: a dry
\* run has success with 0; validation rejection, confirmation denial, timeout
\* and spawn failure have failure with -1.
C15_SuccessIffZero ==
    \A i \in Indices :
        trace[i].ev = "outcome" =>
            LET o == trace[i].info
            IN  /\ o.success <=> (o.returncode = 0)
                /\ ("dry_run" \in DOMAIN o /\ o.dry_run)
                     => (o.success /\ o.returncode = 0)
                /\ "error" \in DOMAIN o => (~o.success /\ o.returncode = -1)
                /\ (SpawnKindIn(trace[i].att) \cap { "timeout", "error" } # {})
                     => (~o.success /\ o.returncode = -1)
                /\ (trace[1].ev \in { "execute", "ewc" })
                     => ret = Returned("outcome", o)

\* execute_with_confirmation returned a denial
C15_Witness ==
    /\ trace # <<>>
    /\ trace[1].ev = "ewc"
    /\ ret.kind = "outcome"
    /\ "error" \in DOMAIN ret.val
    /\ ret.val.error = <<"E","x","e","c","u","t","i","o","n"," ","c","a","n","c","e","l","l","e","d"," ","b","y"," ","u","s","e","r">>
    /\ ret.val.returncode = -1

InjectionMarkers == { << Backquote >>, << "$", "(" >>, << "$", "{" >> }

\* C16: validate_command rejects every text containing a backtick, '$(' or
\* '${' with a reason naming the marker, and accepts every other text that is
\* not empty or whitespace-only.
C16_RejectsInjectionMarkers ==
    (trace # <<>> /\ trace[1].ev = "validate_command") =>
        LET c == trace[1].cmd
            v == trace[1].info
        IN  /\ HasInjectionMarker(c) =>
                  /\ ~v[1]
                  /\ \E m \in InjectionMarkers : Contains(c, m) /\ Contains(v[2], m)
            /\ (~HasInjectionMarker(c) /\ strip(c) # <<>>) => v[1]

\* C17 as stated: the empty and every whitespace-only text is rejected with
\* the reason "empty command".
C17_EmptyReasonLowercase ==
    (trace # <<>> /\ trace[1].ev = "validate_command" /\ strip(trace[1].cmd) = <<>>)
        => trace[1].info = << FALSE, <<"e","m","p","t","y"," ","c","o","m","m","a","n","d">> >>

\* C17 amended: the empty and every whitespace-only text is rejected with
\* the reason "Empty command".
C17_EmptyRejected ==
    (trace # <<>> /\ trace[1].ev = "validate_command" /\ strip(trace[1].cmd) = <<>>)
        => /\ trace[1].info = << FALSE, <<"E","m","p","t","y"," ","c","o","m","m","a","n","d">> >>
           /\ ret = Returned("validation", << FALSE, <<"E","m","p","t","y"," ","c","o","m","m","a","n","d">> >>)

\* a text of a tab and a newline was rejected
C17_Witness ==
    /\ trace # <<>>
    /\ trace[1].ev = "validate_command"
    /\ trace[1].cmd = << "\t", "\n" >>
    /\ ret.kind = "validation"
    /\ ~ret.val[1]

\* C18: get_command_suggestion always returns a Suggestion with a command
\* field; when the provider is unavailable or its reply unparsable the
\* Suggestion is a fallback with safe_to_auto_execute false; no caller
\* faults on suggestion['command'].
C18_SuggestionAlwaysHasCommand ==
    /\ ret.kind = "suggestion" =>
          /\ HasCommand(ret.val)
          /\ trace[1].info \in { "unparsable", "unavailable" } =>
                /\ ~ret.val.safe_to_auto_execute
                /\ ret.val.command \in { FallbackCommand, ErrorCommand }
    /\ \A i \in Indices : trace[i].ev # "KeyError"

\* the category of the spec a hint belongs to (1 command not found,
\* 2 permission denied, 3 no such file, 4 package manager, 5 version
\* control, 6 interpreter)
EndsWith(s, t) ==
    Len(t) <= Len(s) /\ SubSeq(s, Len(s) - Len(t) + 1, Len(s)) = t

HintCategory(hint) ==
    CASE \/ (StartsWith(hint, <<"I","n","s","t","a","l","l"," ">>)
             /\ EndsWith(hint, <<" ","u","s","i","n","g"," ","y","o","u","r"," ","p","a","c","k","a","g","e"," ","m","a","n","a","g","e","r">>))
         \/ EndsWith(hint, <<" ","i","s"," ","i","n"," ","y","o","u","r"," ","P","A","T","H">>)
         \/ hint = <<"C","h","e","c","k"," ","f","o","r"," ","t","y","p","o","s"," ","i","n"," ","t","h","e"," ","c","o","m","m","a","n","d"," ","n","a","m","e">> -> 1
      [] \/ StartsWith(hint, <<"T","r","y"," ","w","i","t","h"," ","s","u","d","o",":"," ","s","u","d","o"," ">>)
         \/ hint \in { <<"C","h","e","c","k"," ","f","i","l","e"," ","p","e","r","m","i","s","s","i","o","n","s"," ","w","i","t","h"," ","l","s"," ","-","l">>,
                       <<"E","n","s","u","r","e"," ","y","o","u"," ","h","a","v","e"," ","a","c","c","e","s","s"," ","t","o"," ","t","h","e"," ","f","i","l","e","/","d","i","r","e","c","t","o","r","y">> } -> 2
      [] hint \in { <<"C","h","e","c","k"," ","i","f"," ","t","h","e"," ","f","i","l","e","/","d","i","r","e","c","t","o","r","y"," ","e","x","i","s","t","s">>,
                    <<"V","e","r","i","f","y"," ","t","h","e"," ","p","a","t","h"," ","i","s"," ","c","o","r","r","e","c","t">>,
                    <<"U","s","e"," ","t","a","b"," ","c","o","m","p","l","e","t","i","o","n"," ","t","o"," ","v","e","r","i","f","y"," ","p","a","t","h","s">> } -> 3
      [] hint \in { <<"A","n","o","t","h","e","r"," ","p","a","c","k","a","g","e"," ","m","a","n","a","g","e","r"," ","i","s"," ","r","u","n","n","i","n","g">>,
                    <<"W","a","i","t"," ","f","o","r"," ","i","t"," ","t","o"," ","f","i","n","i","s","h"," ","o","r"," ","k","i","l","l"," ","t","h","e"," ","p","r","o","c","e","s","s">>,
                    <<"U","p","d","a","t","e"," ","p","a","c","k","a","g","e"," ","l","i","s","t","s"," ","f","i","r","s","t">>,
                    <<"C","h","e","c","k"," ","p","a","c","k","a","g","e"," ","n","a","m","e"," ","s","p","e","l","l","i","n","g">> } -> 4
      [] hint \in { <<"I","n","i","t","i","a","l","i","z","e"," ","a"," ","g","i","t"," ","r","e","p","o","s","i","t","o","r","y",":"," ","g","i","t"," ","i","n","i","t">>,
                    <<"C","l","o","n","e"," ","a","n"," ","e","x","i","s","t","i","n","g"," ","r","e","p","o","s","i","t","o","r","y">>,
                    <<"R","e","s","o","l","v","e"," ","c","o","n","f","l","i","c","t","s"," ","m","a","n","u","a","l","l","y">>,
                    <<"U","s","e"," ","g","i","t"," ","s","t","a","t","u","s"," ","t","o"," ","s","e","e"," ","c","o","n","f","l","i","c","t","e","d"," ","f","i","l","e","s">> } -> 5
      [] OTHER -> 6

FirstTokenIs(command, name) ==
    split(command) # <<>> /\ split(command)[1] = name

\* the rules of the Failure Analyzer, on the lowered stderr
Rule(k, command, text) ==
    CASE k = 1 -> Contains(text, <<"c","o","m","m","a","n","d"," ","n","o","t"," ","f","o","u","n","d">>)
      [] k = 2 -> Contains(text, <<"p","e","r","m","i","s","s","i","o","n"," ","d","e","n","i","e","d">>)
      [] k = 3 -> Contains(text, <<"n","o"," ","s","u","c","h"," ","f","i","l","e"," ","o","r"," ","d","i","r","e","c","t","o","r","y">>)
      [] k = 4 -> /\ \E pkg \in PackageManagers : Contains(text, pkg)
                  /\ Contains(text, <<"l","o","c","k">>) \/ Contains(text, <<"n","o","t"," ","f","o","u","n","d">>)
      [] k = 5 -> /\ FirstTokenIs(command, <<"g","i","t">>)
                  /\ \/ Contains(text, <<"n","o","t"," ","a"," ","g","i","t"," ","r","e","p","o","s","i","t","o","r","y">>)
                     \/ Contains(text, <<"m","e","r","g","e"," ","c","o","n","f","l","i","c","t">>)
      [] OTHER -> /\ Contains(command, <<"p","y","t","h","o","n">>) \/ Contains(command, <<"p","i","p">>)
                  /\ \/ Contains(text, <<"m","o","d","u","l","e","n","o","t","f","o","u","n","d","e","r","r","o","r">>)
                     \/ Contains(text, <<"s","y","n","t","a","x","e","r","r","o","r">>)

\* the categories in priority order: what selects each one
Category(k, command, text) ==
    CASE k \in 1..3 -> Rule(k, command, text)
      [] k = 4 -> \E pkg \in PackageManagers : Contains(text, pkg)
      [] k = 5 -> Contains(command, <<"g","i","t">>)
      [] OTHER -> Contains(command, <<"p","y","t","h","o","n">>) \/ Contains(command, <<"p","i","p">>)

FirstCategory(command, text) ==
    IF \E k \in 1..6 : Category(k, command, text)
    THEN CHOOSE k \in 1..6 : /\ Category(k, command, text)
                             /\ \A j \in 1..(k - 1) : ~Category(j, command, text)
    ELSE 0

\* C19: suggest_fix returns the hints of the first matching category only,
\* in the fixed priority order, and the empty sequence when none matches.
C19_FirstCategoryOnly ==
    \A i \in Indices :
        trace[i].ev = "suggest_fix" =>
            LET first == FirstCategory(trace[i].cmd, lower(trace[i].info.stderr))
                hints == trace[i].info.suggestions
            IN  /\ ~trace[i].info.raised
                /\ first = 0 => hints = <<>>
                /\ \A n \in 1..Len(hints) : HintCategory(hints[n]) = first

\* C20: when rules 1 to 4 do not match, the first token is git and stderr
\* has a VCS error phrase, the result is the VCS hint; and a VCS hint is
\* returned only for a command whose first token is git.
C20_VersionControlRule ==
    \A i \in Indices :
        (trace[i].ev = "suggest_fix" /\ ~trace[i].info.raised) =>
            LET command == trace[i].cmd
                text  == lower(trace[i].info.stderr)
                hints == trace[i].info.suggestions
            IN  /\ ((\A k \in 1..4 : ~Rule(k, command, text))
                      /\ Rule(5, command, text))
                     => /\ hints # <<>>
                        /\ \A n \in 1..Len(hints) : HintCategory(hints[n]) = 5
                /\ (\E n \in 1..Len(hints) : HintCategory(hints[n]) = 5)
                     => FirstTokenIs(command, <<"g","i","t">>)

\* C21: for every outcome whose stderr has "ModuleNotFoundError: No module
\* named 'M'", whatever its command, suggest_fix returns a hint naming M as
\* the module to install.
C21_MissingModuleNamed ==
    \A i \in Indices :
        (/\ trace[i].ev = "suggest_fix"
         /\ Contains(trace[i].info.stderr, <<"M","o","d","u","l","e","N","o","t","F","o","u","n","d","E","r","r","o","r",":"," ">> \o ModulePrefix)
         /\ ModuleName(trace[i].info.stderr) # None)
        => /\ ~trace[i].info.raised
           /\ \E n \in 1..Len(trace[i].info.suggestions) :
                 trace[i].info.suggestions[n]
                     = <<"I","n","s","t","a","l","l"," ","m","i","s","s","i","n","g"," ","m","o","d","u","l","e",":"," ","p","i","p"," ","i","n","s","t","a","l","l"," ">>
                       \o ModuleName(trace[i].info.stderr)

\* the verdicts returned by is_dangerous in the operation that ran last
Verdicts ==
    { << trace[i].cmd, trace[i].info >> :
          i \in { i \in Indices : trace[i].ev = "is_dangerous" } }

\* C22: is_dangerous returns true exactly when the reason list is not empty;
\* "ls -la" and "ls" yield false with the empty list.
C22_DangerousIffReasons ==
    /\ \A v \in Verdicts :
          /\ v[2][1] <=> (v[2][2] # <<>>)
          /\ v[1] \in { <<"l","s"," ","-","l","a">>, CmdLs } => v[2] = << FALSE, <<>> >>
          /\ ret = Returned("verdict", v[2])
    /\ \A i \in Indices : trace[i].ev = "ask" => trace[i].info # <<>>

\* "ls -la" was classified
C22_Witness ==
    /\ << <<"l","s"," ","-","l","a">>, << FALSE, <<>> >> >> \in Verdicts
    /\ ret.kind = "verdict"

HasReason(verdict, text) ==
    \E n \in 1..Len(verdict[2]) : StartsWith(lower(verdict[2][n]), text)

\* a '>' that is not part of a doubled '>>'
HasSingleRedirect(c) ==
    \E i \in 1..Len(c) :
        /\ c[i] = ">"
        /\ (i = 1 \/ c[i - 1] # ">")
        /\ (i = Len(c) \/ c[i + 1] # ">")

\* C23: is_dangerous gives the reason 'may overwrite existing files' exactly
\* when the command has a single '>' that is not part of a doubled '>>'.
C23_RedirectionHeuristic ==
    \A v \in Verdicts :
        HasReason(v[2], <<"m","a","y"," ","o","v","e","r","w","r","i","t","e"," ","e","x","i","s","t","i","n","g"," ","f","i","l","e","s">>) <=> HasSingleRedirect(v[1])

\* a shell-interpreter name is a token after a pipe operator
ShellTokenAfterPipe(c) ==
    \E i \in 1..Len(c) :
        /\ c[i] = "|"
        /\ \E n \in 1..Len(split(SubSeq(c, i + 1, Len(c)))) :
              split(SubSeq(c, i + 1, Len(c)))[n] \in ShellNames

\* C24: is_dangerous gives the pipe-to-shell reason exactly when the command
\* has a pipe operator with a shell-interpreter name as a later token.
C24_PipeToShellHeuristic ==
    \A v \in Verdicts :
        HasReason(v[2], <<"p","i","p","e","s"," ","t","o"," ","s","h","e","l","l">>) <=> ShellTokenAfterPipe(v[1])

\* C25 as stated: is_dangerous("rm -rf /") returns true with the one reason
\* "Matches dangerous pattern: rm -rf /".
C25_ReasonNamesPlainSignature ==
    \A v \in Verdicts :
        v[1] = CmdRm => v[2] = << TRUE, << <<"M","a","t","c","h","e","s"," ","d","a","n","g","e","r","o","u","s"," ","p","a","t","t","e","r","n",":"," ","r","m"," ","-","r","f"," ","/">> >> >>

\* C25 amended: is_dangerous("rm -rf /") returns true with the one reason
\* "Matches dangerous pattern: rm\s+-rf\s+/", the signature's pattern text.
C25_RmRfRoot ==
    \A v \in Verdicts :
        v[1] = CmdRm =>
            /\ v[2] = << TRUE, << <<"M","a","t","c","h","e","s"," ","d","a","n","g","e","r","o","u","s"," ","p","a","t","t","e","r","n",":"," ","r","m","\\","s","+","-","r","f","\\","s","+","/">> >> >>
            /\ ret = Returned("verdict", v[2])

\* "rm -rf /" was classified as dangerous
C25_Witness ==
    /\ \E v \in Verdicts : v[1] = CmdRm /\ v[2][1]
    /\ ret.kind = "verdict"

\* C27: the signature set given through the configuration is the set that
\* is_dangerous evaluates: a command without sudo, redirection and pipe is
\* dangerous exactly when it contains a configured signature.
C27_ConfiguredSignaturesUsed ==
    \A i \in Indices :
        (trace[i].ev = "configured" /\ trace[i].info.dangerous_patterns # <<>>) =>
            (trace[i].info.verdict[1]
                <=> \E k \in 1..Len(trace[i].info.dangerous_patterns) :
                        Contains(trace[i].cmd, trace[i].info.dangerous_patterns[k]))

\* C28: get_last_error returns the most recently attempted execution that
\* failed, also one that timed out or failed to spawn.
C28_LastErrorIsLatestFailure ==
    \A i \in Indices :
        trace[i].ev = "get_last_error" =>
            /\ ret = Returned("last_error", trace[i].info.returned)
            /\ trace[i].info.attempted # None
                 => trace[i].info.returned = trace[i].info.attempted

\* the answer typed last at the choice prompt is one of the words
Typed(words) ==
    \E i \in Indices :
        /\ trace[i].ev = "typed"
        /\ trace[i].info[Len(trace[i].info)] # Interrupt
        /\ strip(lower(trace[i].info[Len(trace[i].info)])) \in words

EventInfo(ev) == { trace[i].info : i \in { i \in Indices : trace[i].ev = ev } }

\* C29: after a natural-language request a command is handed to execution
\* only when the user typed yes, typed a non-empty edit, or selected an
\* alternative by its number; process_request itself spawns nothing, and
\* after cancel, quit, an empty edit or an invalid selection nothing is run.
C29_RunsOnlyWhatWasChosen ==
    (Len(trace) >= 2 /\ trace[1].ev = "request" /\ trace[2].ev = "provider") =>
        /\ \A i \in Indices : trace[i].ev # "spawn"
        /\ pending.active =>
              \/ /\ pending.origin = "suggestion"
                 /\ Typed({ <<"y">>, <<"y","e","s">> })
              \/ /\ pending.origin = "edit"
                 /\ Typed({ <<"e">>, <<"e","d","i","t">> })
                 /\ EventInfo("edit") = { pending.command }
                 /\ strip(pending.command) # <<>>
              \/ /\ pending.origin = "alternative"
                 /\ Typed({ <<"a">>, <<"a","l","t","e","r","n","a","t","i","v","e","s">> })
                 /\ \/ EventInfo("typed_select") = { <<"1">> } /\ pending.command = CmdLs
                    \/ EventInfo("typed_select") = { <<" ","2">> } /\ pending.command = CmdSudo
        /\ Typed({ <<"n">>, <<"n","o">>, <<"q">>, <<"q","u","i","t">> }) => ~pending.active
        /\ (EventInfo("edit") \cap { CmdEmpty, CmdBlank } # {}) => ~pending.active
        /\ (EventInfo("typed_select") \cap { <<"c">>, <<"0">>, <<"3">>, <<"-","1">>, <<"x">> } # {})
              => ~pending.active

\* the second alternative was selected
C29_Witness ==
    /\ pending.active
    /\ pending.origin = "alternative"
    /\ pending.command = CmdSudo
    /\ EventInfo("typed_select") = { <<" ","2">> }

\* an attempt of the executor called directly in which no process ran
NoProcessRan ==
    /\ trace # <<>>
    /\ trace[1].ev \in { "execute", "ewc" }
    /\ ~SpawnedIn(trace, 0)
    /\ Uninterrupted

\* C30: a dry run, a rejection by the validator and a confirmation denial
\* return an outcome and leave the history exactly as it was.
C30_NoProcessNoLog ==
    [][NoProcessRan' => (history' = history /\ ret'.kind = "outcome")]_vars

\* execute_with_confirmation asked and returned a denial
C30_Witness ==
    /\ NoProcessRan
    /\ ret.kind = "outcome"
    /\ ret.val.returncode = -1
    /\ AskedIn(trace, 0)

(***************************************************************************)
(* Properties of the conversation                                          *)
(***************************************************************************)
Min(a, b) == IF a <= b THEN a ELSE b

\* the k most recent entries of log, oldest first
MostRecent(log, k) == SubSeq(log, Len(log) - k + 1, Len(log))

\* C31: for every configured history.max_entries = N with N >= 1, after
\* every add_to_history call conversation_history holds at most N messages,
\* and they are the most recent min(N, total) messages added, in the order
\* in which they were added.
C31_HistoryBounded ==
    LET N == assistant_config.max_entries
    IN  N >= 1 =>
            /\ Len(conversation_history) <= N
            /\ conversation_history = MostRecent(added, Min(N, Len(added)))

\* add_to_history dropped the oldest of three different messages
C31_Witness ==
    /\ assistant_config.max_entries = 2
    /\ trace # <<>>
    /\ trace[1].ev = "add_to_history"
    /\ Len(added) = 3
    /\ added[1] # added[2]
    /\ added[2] # added[3]
    /\ conversation_history = << added[2], added[3] >>

\* C32: a get_command_suggestion call that fails leaves conversation_history
\* unchanged, for both providers; a call that succeeds adds the user message
\* together with the assistant reply to it, so no user message is recorded
\* without its reply.
C32_FailedCallLeavesConversation ==
    \A i \in Indices :
        trace[i].ev = "suggest" =>
            LET call == trace[i].info
            IN  IF call.kind = "unavailable"
                THEN /\ conversation_history = call.before
                     /\ Len(added) = call.total
                ELSE /\ Len(added) = call.total + 2
                     /\ added[call.total + 1] = Message("user", trace[i].cmd)
                     /\ added[call.total + 2].role = "assistant"

(***************************************************************************)
(* Properties of the session loop                                          *)
(***************************************************************************)
\* the operation faulted: an exception other than KeyboardInterrupt left it
FaultIn(events) ==
    \E i \in 1..Len(events) :
        \/ events[i].ev = "KeyError"
        \/ events[i].ev = "suggest_fix" /\ events[i].info.raised
        \/ events[i].ev = "input" /\ events[i].cmd = EndOfInput

\* the user interrupted a prompt or the running command, or chose quit
InterruptIn(events) ==
    \E i \in 1..Len(events) :
        \/ events[i].ev \in { "answer", "help", "edit", "select" }
              /\ events[i].info = Interrupt
        \/ events[i].ev = "spawn" /\ events[i].info = "interrupt"
        \/ events[i].ev = "choice" /\ events[i].info \in { "interrupt", "quit" }
        \/ events[i].ev = "input" /\ events[i].cmd = Interrupt

\* quit, exit or bye was typed at the session prompt
QuitTyped(events) ==
    /\ events # <<>>
    /\ events[1].ev = "input"
    /\ events[1].cmd \notin { Interrupt, EndOfInput }
    /\ lower(strip(events[1].cmd)) \in { <<"q","u","i","t">>, <<"e","x","i","t">>, <<"b","y","e">> }

\* the step that ends a pass of the loop
PassEnds ==
    /\ session = "running"
    /\ ~pending.active
    /\ ret.kind # "idle"
    /\ ret'.kind = "idle"
    /\ trace # <<>>
    /\ trace[1].ev \in { "input", "request", "call" }

\* C33: the session loop ends only on the input quit, exit or bye or on a
\* KeyboardInterrupt (the user interrupting, or choosing quit for a
\* suggestion); every other exception raised while reading the input or
\* processing the request, end of input included, is reported and the loop
\* prompts again; empty input never reaches process_request.
C33_SessionEndsOnlyOnQuit ==
    [][ /\ (session = "running" /\ session' = "ended")
            => (QuitTyped(trace) \/ InterruptIn(trace))
        /\ (PassEnds /\ FaultIn(trace))
            => /\ session' = "running"
               /\ trace' # <<>>
               /\ trace'[1].ev = "report"
        /\ (PassEnds /\ trace[1].ev = "input"
                /\ trace[1].cmd \notin { Interrupt, EndOfInput }
                /\ strip(trace[1].cmd) = <<>>)
            => (session' = "running" /\ trace' = <<>>)
        /\ (trace' # <<>> /\ trace'[1].ev = "request")
            => strip(trace'[1].cmd) # <<>>
      ]_vars

\* a request faulted with KeyError, was reported, and the loop prompts again
C33_Witness ==
    /\ session = "running"
    /\ ret.kind = "idle"
    /\ trace # <<>>
    /\ trace[1].ev = "report"
    /\ trace[1].info = "KeyError"

(***************************************************************************)
(* Properties of handle_alternatives                                       *)
(***************************************************************************)
\* the lines that are numbers, with the number each one spells
NumberLines ==
    { << <<"1">>, 1 >>, << <<"+","1">>, 1 >>, << <<" ","2">>, 2 >>, << <<"2"," ">>, 2 >>, << <<"0">>, 0 >>,
      << <<"3">>, 3 >>, << <<"-","1">>, 0 - 1 >> }

\* C36: handle_alternatives returns alternatives[k-1] for the number k the
\* user entered when 1 <= k <= len(alternatives), and None otherwise: for
\* an empty list, the input c, a text that is no number, a number out of
\* range (0 and negative numbers included); for no line entered does it
\* fault or return a command that is not in the list.
C36_SelectsListedOrNone ==
    \A i \in Indices :
        (trace[i].ev = "handle_alternatives" /\ trace[i].cmd # Interrupt) =>
            LET alternatives == trace[i].info.alternatives
                returned     == trace[i].info.returned
                valid == { n \in NumberLines :
                             /\ n[1] = trace[i].cmd
                             /\ 1 <= n[2]
                             /\ n[2] <= Len(alternatives) }
            IN  /\ ret.kind = "selected"
                /\ \A n \in valid : returned = alternatives[n[2]]
                /\ valid = {} => returned = None

\* the second of two alternatives was selected
C36_Witness ==
    /\ trace # <<>>
    /\ trace[1].ev = "handle_alternatives"
    /\ trace[1].cmd = <<" ","2">>
    /\ trace[1].info.alternatives = << CmdLs, CmdSudo >>
    /\ ret.kind = "selected"
    /\ ret.val = CmdSudo

(***************************************************************************)
(* Properties of the configuration objects                                 *)
(***************************************************************************)
\* the value get returns for every key is the same for the dictionary at
\* address before and after the step
SameValues(address) ==
    \A key \in Keys : get(heap', address, key, None) = get(heap, address, key, None)

Acted(evs) == trace' # <<>> /\ trace'[1].ev \in evs

\* C34: Config.save changes no in-memory value: for every key, get returns
\* after save() what it returned before, for the api_key in particular,
\* in the instance and in Config.DEFAULTS; the mask is in the file only.
C34_SaveChangesNothingInMemory ==
    [][Acted({ "save" }) =>
          /\ SameValues(instances[trace'[1].info])
          /\ SameValues(DefaultsAddress)
          /\ written'[<<"o","p","e","n","a","i">>][<<"a","p","i","_","k","e","y">>] = <<"*","*","*">> ]_vars

\* C35: Config.set on one instance, nested keys included, and the merge of
\* the file and the environment when an instance is loaded change neither
\* Config.DEFAULTS nor the value get returns on any other instance.
C35_InstancesIsolated ==
    [][Acted({ "set", "Config" }) =>
          /\ SameValues(DefaultsAddress)
          /\ \A j \in 1..Len(instances) :
                 j # trace'[1].info => SameValues(instances[j]) ]_vars

====
